---- MODULE Spec2Model ----
(***************************************************************************)
(* Model of the mining/economy core of crypto-miner:                       *)
(*   src/crypto_miner/state.py  (GameState), src/crypto_miner/coins.py     *)
(*   (COINS, normalize_coin, reward_for_coin), src/miners.py               *)
(*   (AVAILABLE_MINERS).                                                   *)
(*                                                                         *)
(* Python floats are represented in fixed point.  Units:                   *)
(*   money                    1e-2  (cents)                                *)
(*   hashrate, competition    1 H/s                                        *)
(*   network target           1 hash                                       *)
(*   time stamps, dt          1e-2 s                                       *)
(*   block_find_multiplier    1e-2                                         *)
(*   reject_rate, random()    1e-6                                         *)
(*   difficulty               1e-3                                         *)
(*   expected blocks          1e-6 block                                   *)
(*   reward tier of coin c    RewardUnit(c) coins (see COINS)              *)
(*   wallet, crypto, reward   1e-6 * RewardUnit(c) coins                   *)
(*   price of coin c          PriceUnit(c) USD (see COINS)                 *)
(* Divisions round towards zero.  NaN and the infinities, which the float  *)
(* arguments of the operations can carry, are three reserved codes.        *)
(***************************************************************************)
EXTENDS Integers, Sequences, FiniteSets, TLC

(***************************************************************************)
(* Bounds of the model.                                                    *)
(***************************************************************************)
MaxSteps == 3
MaxLoadSteps == 2
MaxStartSteps == 2
MaxLongRunSteps == 2

(***************************************************************************)
(* Float special values and Python's comparison / min / max on them.       *)
(***************************************************************************)
NaN == 0 - 2147483645
PosInf == 2147483646 + 0
NegInf == 0 - 2147483646

IsNaN(x) == x = NaN

\* a < b, a <= b, a > b, a >= b on floats: any comparison with NaN is False
FLt(a, b) == ~IsNaN(a) /\ ~IsNaN(b) /\ a < b
FLe(a, b) == ~IsNaN(a) /\ ~IsNaN(b) /\ a <= b
FGt(a, b) == ~IsNaN(a) /\ ~IsNaN(b) /\ a > b
FGe(a, b) == ~IsNaN(a) /\ ~IsNaN(b) /\ a >= b

FAdd(a, b) == IF IsNaN(a) \/ IsNaN(b) THEN NaN ELSE a + b
FSub(a, b) == IF IsNaN(a) \/ IsNaN(b) THEN NaN ELSE a - b

\* Python's builtin min(a, b) / max(a, b): the first argument is kept unless
\* the second compares strictly smaller / larger.
PyMin(a, b) == IF FLt(b, a) THEN b ELSE a
PyMax(a, b) == IF FGt(b, a) THEN b ELSE a

Abs(x) == IF x < 0 THEN 0 - x ELSE x
Sign(x) == IF x < 0 THEN 0 - 1 ELSE 1

\* <<quotient, remainder>> of a*b by c, for a, b >= 0 and 0 < c.  The
\* product is formed when it fits in 31 bits; otherwise the result is
\* computed without it (binary expansion of b).
RECURSIVE MulDivQR(_, _, _)
MulDivQR(a, b, c) ==
    IF b = 0 THEN <<0, 0>>
    ELSE IF a = 0 \/ b <= 2147483647 \div a THEN <<(a * b) \div c, (a * b) % c>>
    ELSE LET h == MulDivQR(a, b \div 2, c)
             t == 2 * h[2] + (b % 2) * (a % c)
         IN  <<2 * h[1] + (t \div c) + (b % 2) * (a \div c), t % c>>

\* a*b/c rounded towards zero, for any signs of a and b, c > 0
MulDiv(a, b, c) ==
    Sign(a) * Sign(b) * MulDivQR(Abs(a), Abs(b), c)[1]


(***************************************************************************)
(* Python dict operations on TLA+ functions.                               *)
(***************************************************************************)
EmptyMap == [k \in {} |-> 0]

\* d.get(k, default)
Get(d, k, default) == IF k \in DOMAIN d THEN d[k] ELSE default

\* d[k] = v
Put(d, k, v) == [x \in (DOMAIN d) \cup {k} |-> IF x = k THEN v ELSE d[x]]

\* d.setdefault(k, v)
SetDefault(d, k, v) == IF k \in DOMAIN d THEN d ELSE Put(d, k, v)

\* lst[-n:] for n > 0
LastN(lst, n) ==
    IF Len(lst) <= n THEN lst ELSE SubSeq(lst, Len(lst) - n + 1, Len(lst))

(***************************************************************************)
(* src/crypto_miner/coins.py                                               *)
(* Coin ids are character strings, modelled as sequences of characters so  *)
(* that normalize_coin acts on them.                                       *)
(***************************************************************************)
SHIB == <<"S", "H", "I", "B">>
DOGE == <<"D", "O", "G", "E">>
XMR == <<"X", "M", "R">>
ETH == <<"E", "T", "H">>
BTC == <<"B", "T", "C">>

\* The value None of an optional string argument
NoneStr == <<"None">>

\* COINS.  base_price in PriceUnit, base_difficulty in 1e-3, network_target in
\* hashes, reward_tiers as <<ceiling in 1e-3, reward in RewardUnit>>.
\*   coin  PriceUnit (USD)  RewardUnit (coins)
\*   SHIB  1e-7             500000
\*   DOGE  1e-4             0.5
\*   XMR   1e-1             0.001
\*   ETH   1                0.001
\*   BTC   10               0.0001
\* sale_div: wallet units * price units / sale_div = cents.
\* usd50: 50 USD (the default of the legacy price field) in PriceUnit.
COINS ==
    [c \in {SHIB, DOGE, XMR, ETH, BTC} |->
        CASE c = SHIB ->
               [symbol |-> "$SHIB", base_price |-> 200, base_difficulty |-> 350,
                network_target |-> 120000,
                reward_tiers |-> << <<500, 10>>, <<1250, 5>>, <<3000, 2>>,
                                    <<999999000, 1>> >>,
                sale_div |-> 200000, usd50 |-> 500000000]
          [] c = DOGE ->
               [symbol |-> "$DOGE", base_price |-> 1200, base_difficulty |-> 1250,
                network_target |-> 650000,
                reward_tiers |-> << <<1250, 10>>, <<3000, 4>>, <<6000, 2>>,
                                    <<999999000, 1>> >>,
                sale_div |-> 200000000, usd50 |-> 500000]
          [] c = XMR ->
               [symbol |-> "$XMR", base_price |-> 1800, base_difficulty |-> 2250,
                network_target |-> 1600000,
                reward_tiers |-> << <<2000, 20>>, <<4000, 10>>, <<8000, 5>>,
                                    <<999999000, 2>> >>,
                sale_div |-> 100000000, usd50 |-> 500]
          [] c = ETH ->
               [symbol |-> "$ETH", base_price |-> 3200, base_difficulty |-> 3250,
                network_target |-> 2500000,
                reward_tiers |-> << <<3000, 10>>, <<6000, 5>>, <<12000, 2>>,
                                    <<999999000, 1>> >>,
                sale_div |-> 10000000, usd50 |-> 50]
          [] c = BTC ->
               [symbol |-> "$BTC", base_price |-> 6000, base_difficulty |-> 5000,
                network_target |-> 4000000,
                reward_tiers |-> << <<5000, 10>>, <<10000, 5>>, <<20000, 2>>,
                                    <<999999000, 1>> >>,
                sale_div |-> 10000000, usd50 |-> 5]]

CoinIds == DOMAIN COINS

\* str.upper() on one character (the letters the inputs of the model use)
UpperChar(ch) ==
    CASE ch = "s" -> "S" [] ch = "h" -> "H" [] ch = "i" -> "I" [] ch = "b" -> "B"
      [] ch = "d" -> "D" [] ch = "o" -> "O" [] ch = "g" -> "G" [] ch = "e" -> "E"
      [] ch = "x" -> "X" [] ch = "m" -> "M" [] ch = "r" -> "R" [] ch = "t" -> "T"
      [] ch = "c" -> "C" [] ch = "f" -> "F"
      [] OTHER -> ch

Upper(s) == [i \in 1..Len(s) |-> UpperChar(s[i])]

IsSpace(ch) == ch \in {" ", "\t", "\n"}

RECURSIVE LStrip(_)
LStrip(s) == IF s # <<>> /\ IsSpace(Head(s)) THEN LStrip(Tail(s)) ELSE s

RECURSIVE RStrip(_)
RStrip(s) ==
    IF s # <<>> /\ IsSpace(s[Len(s)]) THEN RStrip(SubSeq(s, 1, Len(s) - 1)) ELSE s

\* str.strip()
Strip(s) == RStrip(LStrip(s))

\* normalize_coin(coin): (coin or "").upper().strip()
normalize_coin(coin) ==
    Strip(Upper(IF coin = NoneStr THEN <<>> ELSE coin))

\* Mutant of TierScan: a difficulty equal to a ceiling falls into the next
\* tier
RECURSIVE TierScan_Strict(_, _, _)
TierScan_Strict(tiers, i, difficulty) ==
    IF i > Len(tiers) THEN tiers[Len(tiers)][2]
    ELSE IF FLt(difficulty, tiers[i][1]) THEN tiers[i][2]
    ELSE TierScan_Strict(tiers, i + 1, difficulty)

\* reward_for_coin(coin, difficulty): first tier, in list order, whose ceiling
\* is >= difficulty; the last tier's reward when there is none.
RECURSIVE TierScan(_, _, _)
TierScan(tiers, i, difficulty) ==
    IF i > Len(tiers) THEN tiers[Len(tiers)][2]
    ELSE IF FLe(difficulty, tiers[i][1]) THEN tiers[i][2]
    ELSE TierScan(tiers, i + 1, difficulty)

reward_for_coin(coin, difficulty) ==
    TierScan(COINS[normalize_coin(coin)].reward_tiers, 1, difficulty)

(***************************************************************************)
(* src/miners.py                                                           *)
(* cost in cents, hashrate in H/s.  The three ASIC rows exceed the 32-bit  *)
(* integers of TLC in H/s; their hashrate is written as a product that is  *)
(* formed only when such a rig is owned.                                   *)
(***************************************************************************)
MinerKeys ==
    <<"cpu_basic", "gpu_6gb", "gpu_12gb", "gpu_flagship",
      "asic_entry", "asic_pro", "asic_farm">>

MinerCost(key) ==
    CASE key = "cpu_basic" -> 25000
      [] key = "gpu_6gb" -> 150000
      [] key = "gpu_12gb" -> 450000
      [] key = "gpu_flagship" -> 1200000
      [] key = "asic_entry" -> 3000000
      [] key = "asic_pro" -> 8500000
      [] key = "asic_farm" -> 26000000

MinerHashrate(key) ==
    CASE key = "cpu_basic" -> 75000
      [] key = "gpu_6gb" -> 12000000
      [] key = "gpu_12gb" -> 45000000
      [] key = "gpu_flagship" -> 140000000
      [] key = "asic_entry" -> 8000000 * 1000000
      [] key = "asic_pro" -> 40000000 * 1000000
      [] key = "asic_farm" -> 180000000 * 1000000

\* AVAILABLE_MINERS: the keys of the catalog
AVAILABLE_MINERS == {MinerKeys[i] : i \in 1..Len(MinerKeys)}


(***************************************************************************)
(* src/crypto_miner/state.py: class GameState.                             *)
(* A GameState object is a record of its fields.  price_history is a list  *)
(* object that may be the very list held in price_history_by_coin[c]       *)
(* (state.py:268): price_history_ref is then c, and NoneStr when           *)
(* price_history is a list of its own, held in price_history_own.          *)
(***************************************************************************)
PRICE_HISTORY_SAMPLE_SEC == 60
PRICE_HISTORY_MAX_POINTS == 720
HASHRATE_JITTER_PCT == 1
TARGET_BLOCK_TIME == 10
TERMINAL_LOG_MAX == 400
UPGRADE_COST == 500
RESET_MONEY == 10000

\* The dataclass field defaults (state.py:20-47), at time `now`.  The legacy
\* price default, 50.0 USD, is written in the price unit of the default coin.
FieldDefaults(now) ==
    [money |-> 1000 * 100,
     crypto |-> 0,
     wallets |-> EmptyMap,
     miners_owned |-> EmptyMap,
     price |-> COINS[SHIB].usd50,
     difficulty |-> 1000,
     active_coin |-> SHIB,
     coin_prices |-> EmptyMap,
     coin_difficulties |-> EmptyMap,
     coin_network_targets |-> EmptyMap,
     coin_competition |-> EmptyMap,
     hash_rate_cache |-> 0,
     blocks_found |-> 0,
     shares_accepted |-> 0,
     shares_rejected |-> 0,
     started_at |-> now,
     last_mine_ts |-> now,
     block_find_multiplier |-> 100,
     reject_rate |-> 20000,
     terminal_logs |-> <<>>,
     price_history_own |-> <<>>,
     price_history_ref |-> NoneStr,
     price_history_by_coin |-> EmptyMap]

\* The list object self.price_history denotes
PriceHistory(gs) ==
    IF gs.price_history_ref = NoneStr THEN gs.price_history_own
    ELSE gs.price_history_by_coin[gs.price_history_ref]

\* Python truthiness of a float: not zero (NaN is truthy)
Truthy(x) == x # 0

\* _sync_active_view (state.py:88-92)
SyncActiveView(gs) ==
    [gs EXCEPT
        !.crypto = Get(gs.wallets, gs.active_coin, 0),
        !.price = Get(gs.coin_prices, gs.active_coin, gs.price),
        !.difficulty = Get(gs.coin_difficulties, gs.active_coin, gs.difficulty)]

\* Mutant of EnsureCoin: the competition map is not filled
EnsureCoin_NoCompetition(gs, code) ==
    [gs EXCEPT
        !.wallets = SetDefault(@, code, 0),
        !.coin_prices = SetDefault(@, code, COINS[code].base_price),
        !.coin_difficulties = SetDefault(@, code, COINS[code].base_difficulty),
        !.coin_network_targets = SetDefault(@, code, COINS[code].network_target),
        !.price_history_by_coin = SetDefault(@, code, <<>>)]

\* The loop of __post_init__ (state.py:64-70), one coin
EnsureCoin(gs, code) ==
    [gs EXCEPT
        !.wallets = SetDefault(@, code, 0),
        !.coin_prices = SetDefault(@, code, COINS[code].base_price),
        !.coin_difficulties = SetDefault(@, code, COINS[code].base_difficulty),
        !.coin_network_targets = SetDefault(@, code, COINS[code].network_target),
        !.coin_competition = SetDefault(@, code, 0),
        !.price_history_by_coin = SetDefault(@, code, <<>>)]

RECURSIVE EnsureCoins(_, _)
EnsureCoins(gs, codes) ==
    IF codes = {} THEN gs
    ELSE LET code == CHOOSE c \in codes : TRUE
         IN  EnsureCoins(EnsureCoin(gs, code), codes \ {code})

\* The legacy migrations of __post_init__, one statement each: the wallet
\* (state.py:73-74), the price (77-78), the difficulty (79-80) and the price
\* history (83-84) of the active coin.

\* Mutant of MigrateWallet: a non-zero wallet is overwritten too
MigrateWallet_Always(gs) ==
    IF FGt(gs.crypto, 0)
    THEN [gs EXCEPT !.wallets = Put(@, gs.active_coin, gs.crypto)]
    ELSE gs

\* The wallet migration (state.py:73-74)
MigrateWallet(gs) ==
    IF Get(gs.wallets, gs.active_coin, 0) = 0 /\ FGt(gs.crypto, 0)
    THEN [gs EXCEPT !.wallets = Put(@, gs.active_coin, gs.crypto)]
    ELSE gs

MigratePrice(gs) ==
    IF gs.active_coin \notin DOMAIN gs.coin_prices /\ Truthy(gs.price)
    THEN [gs EXCEPT !.coin_prices = Put(@, gs.active_coin, gs.price)]
    ELSE gs

MigrateDifficulty(gs) ==
    IF gs.active_coin \notin DOMAIN gs.coin_difficulties /\ Truthy(gs.difficulty)
    THEN [gs EXCEPT !.coin_difficulties = Put(@, gs.active_coin, gs.difficulty)]
    ELSE gs

\* Mutant of MigrateHistory: a non-empty bucket is overwritten too
MigrateHistory_Overwrite(gs) ==
    IF PriceHistory(gs) # <<>>
    THEN [gs EXCEPT !.price_history_by_coin =
             Put(@, gs.active_coin, PriceHistory(gs))]
    ELSE gs

\* Mutant of MigrateHistory: the flat history is appended to the bucket
MigrateHistory_Append(gs) ==
    IF PriceHistory(gs) # <<>>
    THEN [gs EXCEPT !.price_history_by_coin =
             Put(@, gs.active_coin,
                 Get(@, gs.active_coin, <<>>) \o PriceHistory(gs))]
    ELSE gs

\* The history migration (state.py:83-84)
MigrateHistory(gs) ==
    IF /\ PriceHistory(gs) # <<>>
       /\ Get(gs.price_history_by_coin, gs.active_coin, <<>>) = <<>>
    THEN [gs EXCEPT !.price_history_by_coin =
             Put(@, gs.active_coin, PriceHistory(gs))]
    ELSE gs

\* Mutant of PostInit: an unregistered active coin is kept
PostInit_KeepUnknownCoin(gs) ==
    SyncActiveView(MigrateHistory(MigrateWallet(
        EnsureCoins([gs EXCEPT !.active_coin = normalize_coin(@)], CoinIds))))

\* The fallback of state.py:60-62 for an active coin that is not registered
ActiveCoinOrDefault(coin) ==
    IF normalize_coin(coin) \notin CoinIds THEN SHIB ELSE normalize_coin(coin)

\* __post_init__ (state.py:57-86)
PostInit(gs) ==
    SyncActiveView(MigrateHistory(MigrateDifficulty(MigratePrice(MigrateWallet(
        EnsureCoins([gs EXCEPT !.active_coin = ActiveCoinOrDefault(@)],
                    CoinIds))))))

\* GameState(): the dataclass constructor with no arguments, at time `now`
NewGameState(now) == PostInit(FieldDefaults(now))

\* One log line: its kind, the coin it names and the up-time it prints (0 for
\* a line without one)
LogLine(kind, coin, up) == [kind |-> kind, coin |-> coin, up |-> up]

\* _log (state.py:94-97)
Log(gs, line) ==
    LET appended == Append(gs.terminal_logs, line)
    IN  [gs EXCEPT !.terminal_logs =
            IF Len(appended) > TERMINAL_LOG_MAX
            THEN LastN(appended, TERMINAL_LOG_MAX) ELSE appended]

\* sum(miners_owned.get(m.key, 0) * m.hashrate for m in AVAILABLE_MINERS)
RECURSIVE SumHashrate(_, _)
SumHashrate(owned, i) ==
    IF i > Len(MinerKeys) THEN 0
    ELSE LET count == Get(owned, MinerKeys[i], 0)
         IN  (IF count = 0 THEN 0 ELSE count * MinerHashrate(MinerKeys[i]))
             + SumHashrate(owned, i + 1)

\* recalc_hashrate (state.py:99-104)
recalc_hashrate(gs) == [gs EXCEPT !.hash_rate_cache = SumHashrate(gs.miners_owned, 1)]

\* Mutant of set_active_coin: the single-coin view is not refreshed
set_active_coin_NoSync(gs, coin) ==
    LET norm == normalize_coin(coin)
    IN  IF norm \notin CoinIds THEN <<gs, FALSE>>
        ELSE <<Log([gs EXCEPT !.active_coin = norm], LogLine("config", norm, 0)),
               TRUE>>

\* set_active_coin (state.py:106-113): <<state, result>>
set_active_coin(gs, coin) ==
    LET norm == normalize_coin(coin)
    IN  IF norm \notin CoinIds THEN <<gs, FALSE>>
        ELSE <<Log(SyncActiveView([gs EXCEPT !.active_coin = norm]),
                   LogLine("config", norm, 0)),
               TRUE>>

\* An absent (None) optional float argument
Absent == 0 - 2147483644

\* Mutant of set_mining_config: the multiplier is clamped as
\* max(min(x, 50.0), 0.05), which lets a NaN through
set_mining_config_NaNThrough(gs, block_find_multiplier, reject_rate, network_target) ==
    LET g1 == IF block_find_multiplier # Absent
              THEN [gs EXCEPT !.block_find_multiplier =
                        PyMax(PyMin(block_find_multiplier, 5000), 5)]
              ELSE gs
        g2 == IF reject_rate # Absent
              THEN [g1 EXCEPT !.reject_rate = PyMax(0, PyMin(500000, reject_rate))]
              ELSE g1
    IN  IF network_target # Absent
        THEN [g2 EXCEPT !.coin_network_targets =
                 Put(@, g2.active_coin, PyMax(10000, PyMin(50000000, network_target)))]
        ELSE g2

\* Mutant of set_mining_config: the network target is one global setting,
\* written to every coin
set_mining_config_AllCoins(gs, block_find_multiplier, reject_rate, network_target) ==
    LET g1 == IF block_find_multiplier # Absent
              THEN [gs EXCEPT !.block_find_multiplier =
                        PyMax(5, PyMin(5000, block_find_multiplier))]
              ELSE gs
        g2 == IF reject_rate # Absent
              THEN [g1 EXCEPT !.reject_rate = PyMax(0, PyMin(500000, reject_rate))]
              ELSE g1
    IN  IF network_target # Absent
        THEN [g2 EXCEPT !.coin_network_targets =
                 [c \in DOMAIN @ |-> PyMax(10000, PyMin(50000000, network_target))]]
        ELSE g2

\* set_mining_config (state.py:115-128)
set_mining_config(gs, block_find_multiplier, reject_rate, network_target) ==
    LET g1 == IF block_find_multiplier # Absent
              THEN [gs EXCEPT !.block_find_multiplier =
                        PyMax(5, PyMin(5000, block_find_multiplier))]
              ELSE gs
        g2 == IF reject_rate # Absent
              THEN [g1 EXCEPT !.reject_rate = PyMax(0, PyMin(500000, reject_rate))]
              ELSE g1
    IN  IF network_target # Absent
        THEN [g2 EXCEPT !.coin_network_targets =
                 Put(@, g2.active_coin, PyMax(10000, PyMin(50000000, network_target)))]
        ELSE g2


\* Mutant of calculate_reward: blocks_found is assigned, not incremented
calculate_reward_AssignFound(gs, hashrate, dt, r_found) ==
    IF hashrate <= 0 THEN <<gs, 0>>
    ELSE
    LET ac == gs.active_coin
        base_network_hashrate ==
            Get(gs.coin_network_targets, ac, COINS[ac].network_target)
                \div TARGET_BLOCK_TIME
        total_network_hashrate ==
            base_network_hashrate + hashrate + Get(gs.coin_competition, ac, 0)
        expected_blocks ==
            MulDiv(hashrate,
                   dt * gs.block_find_multiplier * (100 \div TARGET_BLOCK_TIME),
                   PyMax(1, total_network_hashrate))
        real_difficulty ==
            MulDiv(total_network_hashrate, 1000, PyMax(1, base_network_hashrate))
        found == r_found <
                 MulDiv(expected_blocks, 100, PyMax(100, gs.block_find_multiplier))
    IN  <<[gs EXCEPT !.difficulty = real_difficulty,
                     !.coin_difficulties = Put(@, ac, real_difficulty),
                     !.blocks_found = IF found THEN 1 ELSE 0],
          expected_blocks * reward_for_coin(ac, real_difficulty)>>

\* Mutant of calculate_reward: the reward is paid only when the block-found
\* event fires
calculate_reward_FoundGates(gs, hashrate, dt, r_found) ==
    IF hashrate <= 0 THEN <<gs, 0>>
    ELSE
    LET ac == gs.active_coin
        base_network_hashrate ==
            Get(gs.coin_network_targets, ac, COINS[ac].network_target)
                \div TARGET_BLOCK_TIME
        total_network_hashrate ==
            base_network_hashrate + hashrate + Get(gs.coin_competition, ac, 0)
        expected_blocks ==
            MulDiv(hashrate,
                   dt * gs.block_find_multiplier * (100 \div TARGET_BLOCK_TIME),
                   PyMax(1, total_network_hashrate))
        real_difficulty ==
            MulDiv(total_network_hashrate, 1000, PyMax(1, base_network_hashrate))
        found == r_found <
                 MulDiv(expected_blocks, 100, PyMax(100, gs.block_find_multiplier))
    IN  <<[gs EXCEPT !.difficulty = real_difficulty,
                     !.coin_difficulties = Put(@, ac, real_difficulty),
                     !.blocks_found = IF found THEN @ + 1 ELSE @],
          IF found THEN expected_blocks * reward_for_coin(ac, real_difficulty)
          ELSE 0>>

\* Mutant of calculate_reward: the difficulty is that of the base network
\* alone, without the player's and the competitors' hashrate
calculate_reward_BaseOnly(gs, hashrate, dt, r_found) ==
    IF hashrate <= 0 THEN <<gs, 0>>
    ELSE
    LET ac == gs.active_coin
        base_network_hashrate ==
            Get(gs.coin_network_targets, ac, COINS[ac].network_target)
                \div TARGET_BLOCK_TIME
        total_network_hashrate ==
            base_network_hashrate + hashrate + Get(gs.coin_competition, ac, 0)
        expected_blocks ==
            MulDiv(hashrate,
                   dt * gs.block_find_multiplier * (100 \div TARGET_BLOCK_TIME),
                   PyMax(1, total_network_hashrate))
        real_difficulty ==
            MulDiv(base_network_hashrate, 1000, PyMax(1, base_network_hashrate))
        found == r_found <
                 MulDiv(expected_blocks, 100, PyMax(100, gs.block_find_multiplier))
    IN  <<[gs EXCEPT !.difficulty = real_difficulty,
                     !.coin_difficulties = Put(@, ac, real_difficulty),
                     !.blocks_found = IF found THEN @ + 1 ELSE @],
          expected_blocks * reward_for_coin(ac, real_difficulty)>>

\* _calculate_reward (state.py:130-183) with the draw r_found of
\* random.random() at line 180: <<state, reward>>
calculate_reward(gs, hashrate, dt, r_found) ==
    IF hashrate <= 0 THEN <<gs, 0>>
    ELSE
    LET ac == gs.active_coin
        base_target_hashes ==
            Get(gs.coin_network_targets, ac, COINS[ac].network_target)
        base_network_hashrate == base_target_hashes \div TARGET_BLOCK_TIME
        competition == Get(gs.coin_competition, ac, 0)
        total_network_hashrate == base_network_hashrate + hashrate + competition
        \* blocks_per_second * network_share * dt * block_find_multiplier, in
        \* 1e-6 block: (1/10) * (hashrate/total) * (dt/100) * (mult/100) * 1e6
        expected_blocks ==
            MulDiv(hashrate,
                   dt * gs.block_find_multiplier * (100 \div TARGET_BLOCK_TIME),
                   PyMax(1, total_network_hashrate))
        real_difficulty ==
            MulDiv(total_network_hashrate, 1000, PyMax(1, base_network_hashrate))
        block_val == reward_for_coin(ac, real_difficulty)
        reward == expected_blocks * block_val
        found == r_found <
                 MulDiv(expected_blocks, 100, PyMax(100, gs.block_find_multiplier))
    IN  <<[gs EXCEPT !.difficulty = real_difficulty,
                     !.coin_difficulties = Put(@, ac, real_difficulty),
                     !.blocks_found = IF found THEN @ + 1 ELSE @],
          reward>>

\* int(x / 100): seconds of a time difference, truncated towards zero
IntSeconds(t) == Sign(t) * (Abs(t) \div 100)

\* The accepted share of mine (state.py:213-229): the counter, the reward
\* and its credit to the active coin's wallet: <<state, reward>>
accept_share(g1, effective_hashrate, dt, up_time, r_found, r_log) ==
    LET g2 == [g1 EXCEPT !.shares_accepted = @ + 1]
        cr == calculate_reward(g2, effective_hashrate, dt, r_found)
        g3 == cr[1]
        reward == cr[2]
        ac == g3.active_coin
        credited == FAdd(Get(g3.wallets, ac, 0), reward)
        g4 == [g3 EXCEPT !.wallets = Put(@, ac, credited), !.crypto = credited]
    IN  IF reward > 0
        THEN <<IF r_log < 100000
               THEN Log(g4, LogLine("mining", ac, up_time))
               ELSE g4,
               reward>>
        ELSE <<g3, reward>>

\* Mutant of mine: a rejected share is counted and then paid like an
\* accepted one
mine_RejectedPays(gs, now, r_idle, jitter, r_reject, r_found, r_log) ==
    LET dt == PyMax(5, PyMin(500, now - gs.last_mine_ts))
        up_time == IntSeconds(now - gs.started_at)
        g1 == recalc_hashrate([gs EXCEPT !.last_mine_ts = now])
        base_hashrate == g1.hash_rate_cache
        effective_hashrate == PyMax(0, MulDiv(base_hashrate, 10000 + jitter, 10000))
    IN  IF base_hashrate <= 0
        THEN <<IF r_idle < 50000
               THEN Log(g1, LogLine("no active miners", g1.active_coin, up_time))
               ELSE g1,
               0>>
        ELSE IF r_reject < g1.reject_rate
        THEN accept_share(Log([g1 EXCEPT !.shares_rejected = @ + 1],
                              LogLine("rejected", g1.active_coin, up_time)),
                          effective_hashrate, dt, up_time, r_found, r_log)
        ELSE accept_share(g1, effective_hashrate, dt, up_time, r_found, r_log)

\* Mutant of mine: a tick without rigs counts a rejected share
mine_IdleCounts(gs, now, r_idle, jitter, r_reject, r_found, r_log) ==
    LET dt == PyMax(5, PyMin(500, now - gs.last_mine_ts))
        up_time == IntSeconds(now - gs.started_at)
        g1 == recalc_hashrate([gs EXCEPT !.last_mine_ts = now])
        base_hashrate == g1.hash_rate_cache
        effective_hashrate == PyMax(0, MulDiv(base_hashrate, 10000 + jitter, 10000))
    IN  IF base_hashrate <= 0
        THEN <<[g1 EXCEPT !.shares_rejected = @ + 1], 0>>
        ELSE IF r_reject < g1.reject_rate
        THEN <<Log([g1 EXCEPT !.shares_rejected = @ + 1],
                   LogLine("rejected", g1.active_coin, up_time)),
               0>>
        ELSE accept_share(g1, effective_hashrate, dt, up_time, r_found, r_log)

\* Mutant of mine: the elapsed time has no upper clamp
mine_NoUpperClamp(gs, now, r_idle, jitter, r_reject, r_found, r_log) ==
    LET dt == PyMax(5, now - gs.last_mine_ts)
        up_time == IntSeconds(now - gs.started_at)
        g1 == recalc_hashrate([gs EXCEPT !.last_mine_ts = now])
        base_hashrate == g1.hash_rate_cache
        effective_hashrate == PyMax(0, MulDiv(base_hashrate, 10000 + jitter, 10000))
    IN  IF base_hashrate <= 0
        THEN <<IF r_idle < 50000
               THEN Log(g1, LogLine("no active miners", g1.active_coin, up_time))
               ELSE g1,
               0>>
        ELSE IF r_reject < g1.reject_rate
        THEN <<Log([g1 EXCEPT !.shares_rejected = @ + 1],
                   LogLine("rejected", g1.active_coin, up_time)),
               0>>
        ELSE accept_share(g1, effective_hashrate, dt, up_time, r_found, r_log)

\* mine (state.py:185-229) at time `now`, with the draws of random.random()
\* at line 194 (r_idle), 203 (r_reject), 180 (r_found), 222 (r_log) and of
\* random.uniform at line 199 (jitter, in 1e-4): <<state, reward>>
mine(gs, now, r_idle, jitter, r_reject, r_found, r_log) ==
    LET dt == PyMax(5, PyMin(500, now - gs.last_mine_ts))
        up_time == IntSeconds(now - gs.started_at)
        g1 == recalc_hashrate([gs EXCEPT !.last_mine_ts = now])
        base_hashrate == g1.hash_rate_cache
        effective_hashrate == PyMax(0, MulDiv(base_hashrate, 10000 + jitter, 10000))
    IN  IF base_hashrate <= 0
        THEN <<IF r_idle < 50000
               THEN Log(g1, LogLine("no active miners", g1.active_coin, up_time))
               ELSE g1,
               0>>
        ELSE IF r_reject < g1.reject_rate
        THEN <<Log([g1 EXCEPT !.shares_rejected = @ + 1],
                   LogLine("rejected", g1.active_coin, up_time)),
               0>>
        ELSE accept_share(g1, effective_hashrate, dt, up_time, r_found, r_log)

\* The price floor 0.00000001 USD of state.py:235 lies below the price unit
\* of every coin; it is the smallest positive price the model represents.
PriceFloor == 1

\* Mutant of update_market_economics: the competition of every coin grows
update_market_economics_AllCoins(gs, u, r_growth) ==
    LET ac == gs.active_coin
        drift == MulDiv(gs.price, u, 10000)
        new_price == PyMax(PriceFloor, gs.price + drift)
        g1 == [gs EXCEPT !.price = new_price,
                         !.coin_prices = Put(@, ac, new_price)]
        growth_amount ==
            MulDiv(g1.difficulty, COINS[ac].network_target \div TARGET_BLOCK_TIME,
                   1000 * 1000)
    IN  IF r_growth < 100000
        THEN [g1 EXCEPT !.coin_competition =
                 [c \in DOMAIN @ |-> @[c] + growth_amount]]
        ELSE g1

\* _update_market_economics (state.py:231-247) with the draws of
\* random.uniform at line 234 (u, in 1e-4) and random.random() at line 244
update_market_economics(gs, u, r_growth) ==
    LET ac == gs.active_coin
        drift == MulDiv(gs.price, u, 10000)
        new_price == PyMax(PriceFloor, gs.price + drift)
        g1 == [gs EXCEPT !.price = new_price,
                         !.coin_prices = Put(@, ac, new_price)]
        \* difficulty * 0.001 * network_target / TARGET_BLOCK_TIME, in H/s
        growth_amount ==
            MulDiv(g1.difficulty, COINS[ac].network_target \div TARGET_BLOCK_TIME,
                   1000 * 1000)
    IN  IF r_growth < 100000
        THEN [g1 EXCEPT !.coin_competition =
                 Put(@, ac, Get(g1.coin_competition, ac, 0) + growth_amount)]
        ELSE g1

\* Mutant of record_price_history: every tick appends a sample
record_price_history_Always(gs, now) ==
    [gs EXCEPT
        !.price_history_by_coin =
            Put(@, gs.active_coin,
                Append(Get(@, gs.active_coin, <<>>), <<now, gs.price>>)),
        !.price_history_ref = gs.active_coin,
        !.price_history_own = <<>>]

\* Mutant of record_price_history: a full bucket keeps its oldest samples
record_price_history_KeepOldest(gs, now) ==
    LET ac == gs.active_coin
        hist == Get(gs.price_history_by_coin, ac, <<>>)
        should_record ==
            \/ hist = <<>>
            \/ now - hist[Len(hist)][1] >= PRICE_HISTORY_SAMPLE_SEC * 100
        appended == Append(hist, <<now, gs.price>>)
    IN  IF should_record
        THEN [gs EXCEPT
                 !.price_history_by_coin =
                     Put(@, ac, IF Len(appended) > PRICE_HISTORY_MAX_POINTS
                                THEN SubSeq(appended, 1, PRICE_HISTORY_MAX_POINTS)
                                ELSE appended),
                 !.price_history_ref = ac,
                 !.price_history_own = <<>>]
        ELSE gs

\* _record_price_history (state.py:249-268) at time `now`
record_price_history(gs, now) ==
    LET ac == gs.active_coin
        g1 == [gs EXCEPT !.price_history_by_coin = SetDefault(@, ac, <<>>)]
        hist == g1.price_history_by_coin[ac]
        should_record ==
            \/ hist = <<>>
            \/ now - hist[Len(hist)][1] >= PRICE_HISTORY_SAMPLE_SEC * 100
        appended == Append(hist, <<now, g1.price>>)
    IN  IF should_record
        THEN [g1 EXCEPT
                 !.price_history_by_coin =
                     Put(@, ac, IF Len(appended) > PRICE_HISTORY_MAX_POINTS
                                THEN LastN(appended, PRICE_HISTORY_MAX_POINTS)
                                ELSE appended),
                 !.price_history_ref = ac,
                 !.price_history_own = <<>>]
        ELSE g1

\* Mutant of mining_tick: the history is recorded before the market update
mining_tick_RecordFirst(gs, now, r_idle, jitter, r_reject, r_found, r_log, u, r_growth) ==
    LET m == mine(gs, now, r_idle, jitter, r_reject, r_found, r_log)
        g1 == record_price_history(m[1], now)
    IN  <<update_market_economics(g1, u, r_growth), m[2]>>

\* mining_tick (state.py:270-275): <<state, reward>>
mining_tick(gs, now, r_idle, jitter, r_reject, r_found, r_log, u, r_growth) ==
    LET m == mine(gs, now, r_idle, jitter, r_reject, r_found, r_log)
        g1 == update_market_economics(m[1], u, r_growth)
    IN  <<record_price_history(g1, now), m[2]>>

\* get_terminal_logs (state.py:277-278)
get_terminal_logs(gs, last) ==
    IF last > 0 THEN LastN(gs.terminal_logs, last) ELSE <<>>

\* Mutant of buy_miner: the cached hashrate is not recalculated
buy_miner_StaleHashrate(gs, miner_key) ==
    IF miner_key \notin AVAILABLE_MINERS THEN <<gs, FALSE>>
    ELSE IF FGe(gs.money, MinerCost(miner_key))
    THEN <<[gs EXCEPT !.money = FSub(@, MinerCost(miner_key)),
                      !.miners_owned =
                          Put(@, miner_key, Get(gs.miners_owned, miner_key, 0) + 1)],
           TRUE>>
    ELSE <<gs, FALSE>>

\* buy_miner (state.py:304-314): <<state, result>>
buy_miner(gs, miner_key) ==
    IF miner_key \notin AVAILABLE_MINERS THEN <<gs, FALSE>>
    ELSE IF FGe(gs.money, MinerCost(miner_key))
    THEN <<recalc_hashrate(
             [gs EXCEPT !.money = FSub(@, MinerCost(miner_key)),
                        !.miners_owned =
                            Put(@, miner_key, Get(gs.miners_owned, miner_key, 0) + 1)]),
           TRUE>>
    ELSE <<gs, FALSE>>

\* Mutant of buy_upgrade: the upgrade lowers the difficulty by 0.1 (as the
\* single-coin version did) and leaves the competition alone
buy_upgrade_LowersDifficulty(gs, upgrade_id) ==
    IF upgrade_id = "efficiency_boost" /\ FGe(gs.money, UPGRADE_COST * 100)
    THEN <<[gs EXCEPT !.money = FSub(@, UPGRADE_COST * 100),
                      !.difficulty = PyMax(100, @ - 100)],
           TRUE>>
    ELSE <<gs, FALSE>>

\* buy_upgrade (state.py:316-325): <<state, result>>
buy_upgrade(gs, upgrade_id) ==
    IF upgrade_id = "efficiency_boost" /\ FGe(gs.money, UPGRADE_COST * 100)
    THEN LET current_comp == Get(gs.coin_competition, gs.active_coin, 0)
         IN  <<[gs EXCEPT !.money = FSub(@, UPGRADE_COST * 100),
                          !.coin_competition =
                              Put(@, gs.active_coin,
                                  PyMax(0, MulDiv(current_comp, 9, 10)))],
               TRUE>>
    ELSE <<gs, FALSE>>

\* Mutant of sell_crypto: the amount is not checked against the balance
sell_crypto_NoUpperBound(gs, amount) ==
    LET bal == Get(gs.wallets, gs.active_coin, 0)
    IN  IF FLe(amount, 0) THEN <<gs, FALSE>>
        ELSE <<[gs EXCEPT
                   !.wallets = Put(@, gs.active_coin, FSub(bal, amount)),
                   !.crypto = FSub(bal, amount),
                   !.money = FAdd(@, MulDiv(amount, gs.price,
                                            COINS[gs.active_coin].sale_div))],
               TRUE>>

\* float(amount) * float(self.price) in cents, for the active coin `coin`
SaleValue(amount, price, coin) ==
    IF IsNaN(amount) \/ IsNaN(price) THEN NaN
    ELSE MulDiv(amount, price, COINS[coin].sale_div)

\* sell_crypto (state.py:327-335): <<state, result>>
sell_crypto(gs, amount) ==
    LET bal == Get(gs.wallets, gs.active_coin, 0)
    IN  IF FLe(amount, 0) \/ FGt(amount, bal) THEN <<gs, FALSE>>
        ELSE <<[gs EXCEPT
                   !.wallets = Put(@, gs.active_coin, FSub(bal, amount)),
                   !.crypto = FSub(bal, amount),
                   !.money = FAdd(@, SaleValue(amount, gs.price, gs.active_coin))],
               TRUE>>

\* The loop of reset (state.py:397-403)
ResetCoins(gs) ==
    [gs EXCEPT
        !.wallets = [c \in (DOMAIN @) \cup CoinIds |->
                        IF c \in CoinIds THEN 0 ELSE @[c]],
        !.coin_prices = [c \in (DOMAIN @) \cup CoinIds |->
                        IF c \in CoinIds THEN COINS[c].base_price ELSE @[c]],
        !.coin_difficulties = [c \in (DOMAIN @) \cup CoinIds |->
                        IF c \in CoinIds THEN COINS[c].base_difficulty ELSE @[c]],
        !.coin_network_targets = [c \in (DOMAIN @) \cup CoinIds |->
                        IF c \in CoinIds THEN COINS[c].network_target ELSE @[c]],
        !.coin_competition = [c \in (DOMAIN @) \cup CoinIds |->
                        IF c \in CoinIds THEN 0 ELSE @[c]],
        !.price_history_by_coin = [c \in (DOMAIN @) \cup CoinIds |->
                        IF c \in CoinIds THEN <<>> ELSE @[c]]]

\* reset (state.py:382-405) at time `now`.  price_history.clear() empties the
\* list object price_history denotes; the loop then gives every coin a new
\* list, so price_history is left an empty list of its own.
reset(gs, now) ==
    SyncActiveView(ResetCoins(
        [gs EXCEPT
            !.money = RESET_MONEY * 100,
            !.active_coin = SHIB,
            !.miners_owned = EmptyMap,
            !.hash_rate_cache = 0,
            !.terminal_logs = <<>>,
            !.price_history_own = <<>>,
            !.price_history_ref = NoneStr,
            !.blocks_found = 0,
            !.shares_accepted = 0,
            !.shares_rejected = 0,
            !.started_at = now,
            !.block_find_multiplier = 100,
            !.reject_rate = 20000]))


\* save (state.py:337-362): the record written to savegame.json
save(gs) ==
    [money |-> gs.money,
     crypto |-> gs.crypto,
     price |-> gs.price,
     difficulty |-> gs.difficulty,
     miners_owned |-> gs.miners_owned,
     terminal_logs |-> gs.terminal_logs,
     price_history |-> PriceHistory(gs),
     blocks_found |-> gs.blocks_found,
     shares_accepted |-> gs.shares_accepted,
     shares_rejected |-> gs.shares_rejected,
     started_at |-> gs.started_at,
     block_find_multiplier |-> gs.block_find_multiplier,
     reject_rate |-> gs.reject_rate,
     active_coin |-> gs.active_coin,
     wallets |-> gs.wallets,
     coin_prices |-> gs.coin_prices,
     coin_difficulties |-> gs.coin_difficulties,
     coin_network_targets |-> gs.coin_network_targets,
     coin_competition |-> gs.coin_competition,
     price_history_by_coin |-> gs.price_history_by_coin]

\* cls(**filtered_data) (state.py:370-375): the fields of the record that are
\* dataclass fields replace the defaults, stale keys are dropped, and the
\* generated __init__ runs __post_init__.  The record's legacy price is read
\* in the price unit of the coin its active_coin resolves to.
FromRecord(data, now) ==
    LET d == FieldDefaults(now)
        raw == IF "active_coin" \in DOMAIN data THEN data.active_coin ELSE d.active_coin
        norm == normalize_coin(raw)
        ac == IF norm \in CoinIds THEN norm ELSE SHIB
    IN  PostInit(
          [f \in DOMAIN d |->
             IF f = "price_history_own"
             THEN (IF "price_history" \in DOMAIN data THEN data.price_history ELSE <<>>)
             ELSE IF f = "price_history_ref" THEN NoneStr
             ELSE IF f \in DOMAIN data THEN data[f]
             ELSE IF f = "price" THEN COINS[ac].usd50
             ELSE d[f]])

\* load (state.py:364-380) at time `now`.  file.kind is "missing" when
\* savegame.json does not exist, "unparsable" when it is not JSON, and
\* "object" when it holds the JSON object file.data.
load(file, now) ==
    IF file.kind \in {"missing", "unparsable"} THEN NewGameState(now)
    ELSE recalc_hashrate(PostInit(FromRecord(file.data, now)))

(***************************************************************************)
(* The state machine.  gs is the process-wide GameState instance, clock    *)
(* the wall clock time.time() reads, ret the last step taken (the          *)
(* operation called, its arguments, its result), steps the number of steps *)
(* left.                                                                   *)
(***************************************************************************)
VARIABLES gs, clock, ret, steps

vars == <<gs, clock, ret, steps>>

Ret(op, args, ok, value) == [op |-> op, args |-> args, ok |-> ok, value |-> value]

\* Inputs of the operations
TimeDeltas == {0 - 100, 3, 100, 700, 6000}
RandomDraws == {0, 999999}
JitterDraws == {0 - HASHRATE_JITTER_PCT * 100, HASHRATE_JITTER_PCT * 100}
DriftDraws == {0 - 200, 200}
MinerKeyInputs == AVAILABLE_MINERS \cup {"quantum_rig"}
UpgradeInputs == {"efficiency_boost", "overclock"}
CoinInputs ==
    {SHIB, <<"d", "o", "g", "e">>, <<" ", "b", "t", "c", " ">>,
     <<"F", "O", "O">>, NoneStr}
ConfigInputs ==
    {<<Absent, Absent, Absent>>,
     <<1, Absent, Absent>>,
     <<NaN, 0 - 5, Absent>>,
     <<250, 0, 700000>>,
     <<PosInf, 900000, 50>>,
     <<Absent, NaN, 60000000>>,
     <<0 - 300, 300000, NegInf>>,
     <<Absent, Absent, NaN>>}
LogLimits == {0 - 3, 0, 1, 200, TERMINAL_LOG_MAX, 1000}
SellInputs(bal) ==
    {NaN, PosInf, NegInf, 0 - 1, 0, 1}
    \cup (IF IsNaN(bal) THEN {} ELSE {bal, bal + 1, bal \div 2})

Init ==
    /\ clock = 0
    /\ gs = NewGameState(0)
    /\ ret = Ret("GameState", <<>>, TRUE, 0)
    /\ steps = MaxSteps

\* Wall-clock time passes (or the clock is set back) between two requests
TimePasses ==
    /\ steps > 0
    /\ \E d \in TimeDeltas :
          /\ clock' = clock + d
          /\ ret' = Ret("time", <<d>>, TRUE, 0)
    /\ steps' = steps - 1
    /\ UNCHANGED gs

\* One request for a tick.  Only the draws the tick makes are chosen: r_idle
\* when no rig is owned, otherwise jitter and r_reject, and r_found and r_log
\* when the share is accepted.  A draw that is not made is written 0.
MiningTick ==
    /\ steps > 0
    /\ LET idle == SumHashrate(gs.miners_owned, 1) <= 0
       IN  \E r_idle \in (IF idle THEN RandomDraws ELSE {0}),
              jitter \in (IF idle THEN {0} ELSE JitterDraws),
              r_reject \in (IF idle THEN {0} ELSE RandomDraws),
              u \in DriftDraws, r_growth \in RandomDraws :
              LET accepted == ~idle /\ ~(r_reject < gs.reject_rate)
              IN  \E r_found \in (IF accepted THEN RandomDraws ELSE {0}),
                     r_log \in (IF accepted THEN RandomDraws ELSE {0}) :
                     LET t == mining_tick(gs, clock, r_idle, jitter, r_reject,
                                          r_found, r_log, u, r_growth)
                     IN  /\ gs' = t[1]
                         /\ ret' = Ret("mining_tick", <<>>, TRUE, t[2])
    /\ steps' = steps - 1
    /\ UNCHANGED clock

BuyMiner ==
    /\ steps > 0
    /\ \E miner_key \in MinerKeyInputs :
          LET b == buy_miner(gs, miner_key)
          IN  /\ gs' = b[1]
              /\ ret' = Ret("buy_miner", <<miner_key>>, b[2], 0)
    /\ steps' = steps - 1
    /\ UNCHANGED clock

BuyUpgrade ==
    /\ steps > 0
    /\ \E upgrade_id \in UpgradeInputs :
          LET b == buy_upgrade(gs, upgrade_id)
          IN  /\ gs' = b[1]
              /\ ret' = Ret("buy_upgrade", <<upgrade_id>>, b[2], 0)
    /\ steps' = steps - 1
    /\ UNCHANGED clock

SellCrypto ==
    /\ steps > 0
    /\ \E amount \in SellInputs(Get(gs.wallets, gs.active_coin, 0)) :
          LET b == sell_crypto(gs, amount)
          IN  /\ gs' = b[1]
              /\ ret' = Ret("sell_crypto", <<amount>>, b[2], 0)
    /\ steps' = steps - 1
    /\ UNCHANGED clock

SetActiveCoin ==
    /\ steps > 0
    /\ \E coin \in CoinInputs :
          LET b == set_active_coin(gs, coin)
          IN  /\ gs' = b[1]
              /\ ret' = Ret("set_active_coin", <<coin>>, b[2], 0)
    /\ steps' = steps - 1
    /\ UNCHANGED clock

SetMiningConfig ==
    /\ steps > 0
    /\ \E cfg \in ConfigInputs :
          /\ gs' = set_mining_config(gs, cfg[1], cfg[2], cfg[3])
          /\ ret' = Ret("set_mining_config", cfg, TRUE, 0)
    /\ steps' = steps - 1
    /\ UNCHANGED clock

Reset ==
    /\ steps > 0
    /\ gs' = reset(gs, clock)
    /\ ret' = Ret("reset", <<>>, TRUE, 0)
    /\ steps' = steps - 1
    /\ UNCHANGED clock

Next ==
    \/ TimePasses
    \/ MiningTick
    \/ BuyMiner
    \/ BuyUpgrade
    \/ SellCrypto
    \/ SetActiveCoin
    \/ SetMiningConfig
    \/ Reset

Spec == Init /\ [][Next]_vars


(***************************************************************************)
(* Start-up from savegame.json (app.py:12 calls GameState.load() once).    *)
(* The files below are the record shapes the model loads: no file, a file  *)
(* that is not JSON, an empty object, a save of the single-coin version    *)
(* (src/game_state.py:226-241), a complete save of this version, and saves *)
(* with partial per-coin maps and unusual active_coin values.  The        *)
(* complete save was written after a switch from SHIB to DOGE with no tick *)
(* in between, so its price_history is still the SHIB list.                *)
(***************************************************************************)
SavedLine == LogLine("mining", SHIB, 12)

LegacyRecord ==
    [money |-> 123400, crypto |-> 3000000, price |-> 525000000,
     difficulty |-> 76000,
     miners_owned |-> [k \in {"cpu_basic"} |-> 1],
     terminal_logs |-> <<SavedLine>>,
     price_history |-> << <<0 - 9000, 500000000>>, <<0 - 3000, 525000000>> >>,
     blocks_found |-> 2, shares_accepted |-> 5, shares_rejected |-> 1,
     started_at |-> 0 - 50000,
     network_target |-> 1000000,
     block_find_multiplier |-> 100, reject_rate |-> 20000]

FullRecord ==
    [money |-> 80000, crypto |-> 2000000, price |-> 1210, difficulty |-> 2153,
     miners_owned |-> [k \in {"cpu_basic", "gpu_6gb"} |->
                          IF k = "cpu_basic" THEN 1 ELSE 0],
     terminal_logs |-> <<SavedLine, LogLine("config", DOGE, 0)>>,
     price_history |-> << <<0 - 7000, 204>> >>,
     blocks_found |-> 1, shares_accepted |-> 3, shares_rejected |-> 0,
     started_at |-> 0 - 20000,
     block_find_multiplier |-> 250, reject_rate |-> 0,
     active_coin |-> DOGE,
     wallets |-> [c \in CoinIds |->
                     IF c = DOGE THEN 2000000 ELSE IF c = SHIB THEN 50000 ELSE 0],
     coin_prices |-> [c \in CoinIds |->
                     IF c = DOGE THEN 1210 ELSE COINS[c].base_price],
     coin_difficulties |-> [c \in CoinIds |->
                     IF c = DOGE THEN 2153 ELSE COINS[c].base_difficulty],
     coin_network_targets |-> [c \in CoinIds |->
                     IF c = DOGE THEN 700000 ELSE COINS[c].network_target],
     coin_competition |-> [c \in CoinIds |->
                     IF c = SHIB THEN 40 ELSE IF c = DOGE THEN 250 ELSE 0],
     price_history_by_coin |-> [c \in CoinIds |->
                     IF c = DOGE THEN << <<0 - 100, 1210>> >>
                     ELSE IF c = SHIB THEN << <<0 - 7000, 204>> >>
                     ELSE <<>>]]

PartialRecord ==
    [money |-> 60000, crypto |-> 7000, price |-> 1700, difficulty |-> 3100,
     active_coin |-> <<" ", "x", "m", "r">>,
     wallets |-> [c \in {BTC, <<"L", "T", "C">>} |-> IF c = BTC THEN 4000 ELSE 9],
     coin_prices |-> [c \in {BTC} |-> 6100],
     coin_competition |-> [c \in {XMR} |-> 1000],
     price_history |-> << <<0 - 500, 1700>> >>,
     price_history_by_coin |-> [c \in {BTC} |-> << <<0 - 800, 6100>> >>]]

UnknownCoinRecord ==
    [money |-> 150000, active_coin |-> <<"F", "O", "O">>,
     crypto |-> 5000,
     wallets |-> [c \in {SHIB} |-> 600000],
     coin_network_targets |-> [c \in {SHIB, ETH} |-> 500000],
     miners_owned |-> [k \in {"gpu_6gb"} |-> 1]]

NullCoinRecord ==
    [active_coin |-> NoneStr, crypto |-> 0, blocks_found |-> 4]

SaveFiles ==
    <<[kind |-> "missing", data |-> EmptyMap],
     [kind |-> "unparsable", data |-> EmptyMap],
     [kind |-> "object", data |-> EmptyMap],
     [kind |-> "object", data |-> LegacyRecord],
     [kind |-> "object", data |-> FullRecord],
     [kind |-> "object", data |-> PartialRecord],
     [kind |-> "object", data |-> UnknownCoinRecord],
     [kind |-> "object", data |-> NullCoinRecord]>>

InitLoad ==
    /\ clock = 0
    /\ \E i \in 1..Len(SaveFiles) :
          /\ gs = load(SaveFiles[i], 0)
          /\ ret = Ret("load", <<i>>, TRUE, 0)
    /\ steps = MaxLoadSteps

SpecLoad == InitLoad /\ [][Next]_vars

(***************************************************************************)
(* Start-up from the save of a long game: the log holds TERMINAL_LOG_MAX   *)
(* lines, the SHIB bucket PRICE_HISTORY_MAX_POINTS samples one minute      *)
(* apart and the DOGE bucket one sample less; the last samples are a       *)
(* minute old.  Line n of the log carries the up-time n.                   *)
(***************************************************************************)
LongRunSamples(n, price) ==
    [i \in 1..n |-> <<(i - n - 1) * 6000, price + i>>]

LongRunRecord ==
    [money |-> 90000, crypto |-> 4000000, price |-> 920, difficulty |-> 352,
     miners_owned |-> [k \in {"cpu_basic"} |-> 2],
     terminal_logs |-> [n \in 1..TERMINAL_LOG_MAX |-> LogLine("mining", SHIB, n)],
     price_history |-> LongRunSamples(PRICE_HISTORY_MAX_POINTS, 200),
     blocks_found |-> 3, shares_accepted |-> 900, shares_rejected |-> 20,
     started_at |-> 0 - 5000000,
     block_find_multiplier |-> 100, reject_rate |-> 20000,
     active_coin |-> SHIB,
     wallets |-> [c \in CoinIds |-> IF c = SHIB THEN 4000000 ELSE 0],
     coin_prices |-> [c \in CoinIds |->
                     IF c = SHIB THEN 920 ELSE COINS[c].base_price],
     coin_difficulties |-> [c \in CoinIds |->
                     IF c = SHIB THEN 352 ELSE COINS[c].base_difficulty],
     coin_network_targets |-> [c \in CoinIds |-> COINS[c].network_target],
     coin_competition |-> [c \in CoinIds |-> IF c = SHIB THEN 42 ELSE 0],
     price_history_by_coin |-> [c \in CoinIds |->
                     IF c = SHIB
                     THEN LongRunSamples(PRICE_HISTORY_MAX_POINTS, 200)
                     ELSE IF c = DOGE
                     THEN LongRunSamples(PRICE_HISTORY_MAX_POINTS - 1, 1200)
                     ELSE <<>>]]

InitLongRun ==
    /\ clock = 0
    /\ gs = load([kind |-> "object", data |-> LongRunRecord], 0)
    /\ ret = Ret("load", <<>>, TRUE, 0)
    /\ steps = MaxLongRunSteps

SpecLongRun == InitLongRun /\ [][Next]_vars

(***************************************************************************)
(* Start-up from any savegame.json.  Besides the files above: JSON that is *)
(* not an object (json.load returns a list, and data.items() at            *)
(* state.py:373 raises AttributeError), an object whose wallets value is a *)
(* list (wallets.setdefault at state.py:65 raises AttributeError), and a   *)
(* save whose log and price history are one element over the maximum       *)
(* sizes.  load catches FileNotFoundError and JSONDecodeError only         *)
(* (state.py:379), so an AttributeError leaves load, and the module-level  *)
(* `game = GameState.load()` of app.py:12 ends the process: no GameState   *)
(* exists and no operation follows.                                        *)
(***************************************************************************)
OversizedRecord ==
    [terminal_logs |-> [i \in 1..(TERMINAL_LOG_MAX + 1) |-> SavedLine],
     price_history |->
         [i \in 1..(PRICE_HISTORY_MAX_POINTS + 1) |->
             <<(i - PRICE_HISTORY_MAX_POINTS - 1) * 6000 - 100, 200 + i>>],
     price_history_by_coin |->
         [c \in {SHIB} |->
             [i \in 1..(PRICE_HISTORY_MAX_POINTS + 1) |->
                 <<(i - PRICE_HISTORY_MAX_POINTS - 1) * 6000 - 100, 200 + i>>]]]

StartFiles ==
    SaveFiles \o
    <<[kind |-> "not_object", data |-> EmptyMap],
      [kind |-> "bad_field", data |-> EmptyMap],
      [kind |-> "object", data |-> OversizedRecord]>>

\* load raises on this file (state.py:366-380)
Raises(file) == file.kind \in {"not_object", "bad_field"}

\* The value of gs when load has raised: there is no GameState
NoGame == [raised |-> "AttributeError"]

\* ret.ok of a load is TRUE when load returned and FALSE when it raised
InitStart ==
    /\ clock = 0
    /\ \E i \in 1..Len(StartFiles) :
          IF Raises(StartFiles[i])
          THEN /\ gs = NoGame
               /\ ret = Ret("load", <<i>>, FALSE, 0)
               /\ steps = 0
          ELSE /\ gs = load(StartFiles[i], 0)
               /\ ret = Ret("load", <<i>>, TRUE, 0)
               /\ steps = MaxStartSteps

SpecStart == InitStart /\ [][Next]_vars


(***************************************************************************)
(* reward_for_coin on its own (coins.py:90-96): the call is made with a    *)
(* coin code in one of the spellings normalize_coin accepts and with a     *)
(* difficulty at, just below and just above every tier ceiling of the      *)
(* registry, with small, negative and very large difficulties and with the *)
(* float special values.  ret.args holds the arguments of the call.        *)
(***************************************************************************)
RewardCoinInputs ==
    CoinIds \cup {<<"d", "o", "g", "e">>, <<" ", "b", "t", "c", " ">>}

TierCeilings ==
    UNION {{COINS[c].reward_tiers[i][1] : i \in 1..Len(COINS[c].reward_tiers)} :
               c \in CoinIds}

DifficultyInputs ==
    TierCeilings
    \cup {d - 1 : d \in TierCeilings}
    \cup {d + 1 : d \in TierCeilings}
    \cup {0 - 1000, 0, 1, 1000, NaN, PosInf, NegInf}

InitReward ==
    /\ clock = 0
    /\ gs = NewGameState(0)
    /\ \E coin \in RewardCoinInputs, difficulty \in DifficultyInputs :
          ret = Ret("arguments", <<coin, difficulty>>, TRUE, 0)
    /\ steps = 1

RewardForCoin ==
    /\ steps > 0
    /\ ret' = Ret("reward_for_coin", ret.args, TRUE,
                  reward_for_coin(ret.args[1], ret.args[2]))
    /\ steps' = steps - 1
    /\ UNCHANGED <<gs, clock>>

NextReward == RewardForCoin

SpecReward == InitReward /\ [][NextReward]_vars


(***************************************************************************)
(* Properties.                                                             *)
(***************************************************************************)

\* C1: from a freshly constructed state, after any sequence of operations
\* with any arguments, money >= 0, every coin's wallet balance >= 0 and
\* every owned-hardware count is an integer >= 0.
C1_NeverNegative ==
    /\ FGe(gs.money, 0)
    /\ \A c \in CoinIds : FGe(gs.wallets[c], 0)
    /\ \A k \in DOMAIN gs.miners_owned :
          gs.miners_owned[k] \in Int /\ gs.miners_owned[k] >= 0

\* C2: in every reachable state (after construction, after load, after any
\* sequence of operations including reset) every coin of the registry has an
\* entry in the wallet, price, difficulty, network-target, competition and
\* per-coin history maps.
C2_EveryCoinHasEntries ==
    \A c \in CoinIds :
        /\ c \in DOMAIN gs.wallets
        /\ c \in DOMAIN gs.coin_prices
        /\ c \in DOMAIN gs.coin_difficulties
        /\ c \in DOMAIN gs.coin_network_targets
        /\ c \in DOMAIN gs.coin_competition
        /\ c \in DOMAIN gs.price_history_by_coin

\* C2 witness: a reset of a state loaded from a save with partial maps
C2_Witness ==
    /\ ret.op = "reset"
    /\ <<"L", "T", "C">> \in DOMAIN gs.wallets
    /\ C2_EveryCoinHasEntries

\* The active_coin value of save file i resolves to no registered coin
UnregisteredInFile(i) ==
    /\ SaveFiles[i].kind = "object"
    /\ "active_coin" \in DOMAIN SaveFiles[i].data
    /\ normalize_coin(SaveFiles[i].data.active_coin) \notin CoinIds

\* C3: the active coin is a member of the registry in every reachable state;
\* set_active_coin succeeds only for a registered id and then installs it,
\* and a state loaded with an unregistered active-coin value has SHIB.
C3_ActiveCoinRegistered ==
    /\ gs.active_coin \in CoinIds
    /\ ret.op = "set_active_coin" =>
          /\ ret.ok <=> normalize_coin(ret.args[1]) \in CoinIds
          /\ ret.ok => gs.active_coin = normalize_coin(ret.args[1])
    /\ (ret.op = "load" /\ UnregisteredInFile(ret.args[1])) => gs.active_coin = SHIB

\* C3 witness: loaded with active_coin "FOO", then "FOO" selected and refused
C3_Witness ==
    /\ ret.op = "set_active_coin"
    /\ ~ret.ok
    /\ ret.args[1] = <<"F", "O", "O">>
    /\ gs.money = UnknownCoinRecord.money
    /\ gs.active_coin = SHIB

\* C4: buy_miner with an unknown id or money < cost, buy_upgrade with an
\* unrecognized id or money < 500, sell_crypto with amount <= 0 or amount >
\* the active wallet balance, and set_active_coin with an unregistered id
\* return failure, and a failing call leaves the whole state unchanged.
C4_FailureStep ==
    /\ (/\ ret'.op = "buy_miner"
        /\ \/ ret'.args[1] \notin AVAILABLE_MINERS
           \/ FLt(gs.money, MinerCost(ret'.args[1])))
       => ~ret'.ok
    /\ (/\ ret'.op = "buy_upgrade"
        /\ \/ ret'.args[1] # "efficiency_boost"
           \/ FLt(gs.money, UPGRADE_COST * 100))
       => ~ret'.ok
    /\ (/\ ret'.op = "sell_crypto"
        /\ \/ FLe(ret'.args[1], 0)
           \/ FGt(ret'.args[1], gs.wallets[gs.active_coin]))
       => ~ret'.ok
    /\ (/\ ret'.op = "set_active_coin"
        /\ normalize_coin(ret'.args[1]) \notin CoinIds)
       => ~ret'.ok
    /\ (/\ ret'.op \in {"buy_miner", "buy_upgrade", "sell_crypto", "set_active_coin"}
        /\ ~ret'.ok)
       => (gs' = gs /\ clock' = clock)

C4_FailureLeavesStateUnchanged == [][C4_FailureStep]_vars

\* C4 witness: more than the (positive) balance was offered and refused
C4_Witness ==
    /\ ret.op = "sell_crypto"
    /\ ~ret.ok
    /\ gs.wallets[gs.active_coin] > 0
    /\ ret.args[1] = gs.wallets[gs.active_coin] + 1

\* C5: across ticks interleaved with buy, sell, set_active_coin and
\* set_mining_config calls, shares_accepted, shares_rejected and blocks_found
\* never decrease.
C5_CountersStep ==
    ret'.op # "reset" =>
        /\ gs'.shares_accepted >= gs.shares_accepted
        /\ gs'.shares_rejected >= gs.shares_rejected
        /\ gs'.blocks_found >= gs.blocks_found

C5_CountersNeverDecrease == [][C5_CountersStep]_vars

\* C5 witness: a tick found no block after a share was rejected, a share was
\* accepted and a block was found
C5_Witness ==
    /\ ret.op = "mining_tick"
    /\ gs.shares_accepted >= 1
    /\ gs.shares_rejected >= 1
    /\ gs.blocks_found >= 1


\* C6: for every input passed to set_mining_config the call succeeds and the
\* resulting state has block_find_multiplier in [0.05, 50], reject_rate in
\* [0, 0.5] and the active coin's network target in [10000, 50000000].
C6_ConfigClamped ==
    ret.op = "set_mining_config" =>
        /\ ret.ok
        /\ FGe(gs.block_find_multiplier, 5) /\ FLe(gs.block_find_multiplier, 5000)
        /\ FGe(gs.reject_rate, 0) /\ FLe(gs.reject_rate, 500000)
        /\ FGe(gs.coin_network_targets[gs.active_coin], 10000)
        /\ FLe(gs.coin_network_targets[gs.active_coin], 50000000)

\* C6 witness: +inf, 0.9 and 50 were passed and clamped to 50, 0.5 and 10000
C6_Witness ==
    /\ ret.op = "set_mining_config"
    /\ ret.args = <<PosInf, 900000, 50>>
    /\ gs.block_find_multiplier = 5000
    /\ gs.reject_rate = 500000
    /\ gs.coin_network_targets[gs.active_coin] = 10000

\* C7: set_mining_config changes only the fields it is given: an absent
\* argument leaves its value unchanged, a network target changes only the
\* active coin's entry, and no other field of the state is touched.
C7_ConfigStep ==
    ret'.op = "set_mining_config" =>
        /\ ret'.args[1] = Absent => gs'.block_find_multiplier = gs.block_find_multiplier
        /\ ret'.args[2] = Absent => gs'.reject_rate = gs.reject_rate
        /\ ret'.args[3] = Absent => gs'.coin_network_targets = gs.coin_network_targets
        /\ DOMAIN gs'.coin_network_targets = DOMAIN gs.coin_network_targets
        /\ \A c \in DOMAIN gs.coin_network_targets :
              c # gs.active_coin =>
                  gs'.coin_network_targets[c] = gs.coin_network_targets[c]
        /\ gs' = [gs EXCEPT
                     !.block_find_multiplier = gs'.block_find_multiplier,
                     !.reject_rate = gs'.reject_rate,
                     !.coin_network_targets = gs'.coin_network_targets]

C7_ConfigChangesOnlyGivenFields == [][C7_ConfigStep]_vars

\* C7 witness: a network target given while DOGE is active; SHIB keeps its own
C7_Witness ==
    /\ ret.op = "set_mining_config"
    /\ ret.args[3] = 700000
    /\ gs.active_coin = DOGE
    /\ gs.coin_network_targets[DOGE] = 700000
    /\ gs.coin_network_targets[SHIB] = COINS[SHIB].network_target

\* Sum over the catalog of count(id) * hashRate(id)
RECURSIVE CatalogHashrate(_, _)
CatalogHashrate(owned, keys) ==
    IF keys = {} THEN 0
    ELSE LET k == CHOOSE x \in keys : TRUE
         IN  (IF k \in DOMAIN owned /\ owned[k] # 0
              THEN owned[k] * MinerHashrate(k) ELSE 0)
             + CatalogHashrate(owned, keys \ {k})

\* C8: buy_miner(id) succeeds when id is known and money >= cost (also when
\* money = cost); a successful call decreases money by exactly the cost of
\* id, increases the owned count of id by exactly 1, leaves every other owned
\* count unchanged and leaves the cached hashrate equal to the sum over the
\* catalog of count * hashrate.
C8_BuyStep ==
    ret'.op = "buy_miner" =>
        LET id == ret'.args[1] IN
        /\ (id \in AVAILABLE_MINERS /\ FGe(gs.money, MinerCost(id))) => ret'.ok
        /\ ret'.ok =>
              /\ id \in AVAILABLE_MINERS
              /\ gs'.money = gs.money - MinerCost(id)
              /\ gs'.miners_owned[id] = Get(gs.miners_owned, id, 0) + 1
              /\ DOMAIN gs'.miners_owned = DOMAIN gs.miners_owned \cup {id}
              /\ \A k \in DOMAIN gs.miners_owned :
                    k # id => gs'.miners_owned[k] = gs.miners_owned[k]
              /\ gs'.hash_rate_cache =
                    CatalogHashrate(gs'.miners_owned, AVAILABLE_MINERS)

C8_BuySuccess == [][C8_BuyStep]_vars

\* C8 witness: a rig bought with money exactly equal to its cost, next to a
\* rig owned before
C8_Witness ==
    /\ ret.op = "buy_miner"
    /\ ret.ok
    /\ gs.money = 0
    /\ gs.hash_rate_cache > MinerHashrate(ret.args[1])

\* C9: sell_crypto(amount) succeeds exactly when 0 < amount <= the active
\* coin's wallet balance; on success the active coin's wallet decreases by
\* amount, money increases by amount times the active coin's per-coin price,
\* and no other coin's wallet changes.
C9_SellStep ==
    ret'.op = "sell_crypto" =>
        LET amount == ret'.args[1]
            ac == gs.active_coin
        IN
        /\ ret'.ok <=> (FGt(amount, 0) /\ FLe(amount, gs.wallets[ac]))
        /\ ret'.ok =>
              /\ gs'.wallets[ac] = gs.wallets[ac] - amount
              /\ gs'.money =
                    gs.money + MulDiv(amount, gs.coin_prices[ac], COINS[ac].sale_div)
              /\ \A c \in DOMAIN gs.wallets :
                    c # ac => gs'.wallets[c] = gs.wallets[c]

C9_SellExactlyWhenInBounds == [][C9_SellStep]_vars

\* C10: buy_upgrade(id) succeeds exactly when id is "efficiency_boost" and
\* money >= 500; on success money decreases by exactly 500 and the active
\* coin's competition becomes 0.9 times its previous value (to the unit of
\* the representation), staying >= 0, while every other coin's competition
\* is unchanged.
C10_UpgradeStep ==
    ret'.op = "buy_upgrade" =>
        LET ac == gs.active_coin
            before == gs.coin_competition[ac]
            after == gs'.coin_competition[ac]
        IN
        /\ ret'.ok <=> (ret'.args[1] = "efficiency_boost"
                        /\ FGe(gs.money, UPGRADE_COST * 100))
        /\ ret'.ok =>
              /\ gs'.money = gs.money - UPGRADE_COST * 100
              /\ 10 * after <= 9 * before
              /\ 9 * before < 10 * after + 10
              /\ after >= 0
              /\ \A c \in DOMAIN gs.coin_competition :
                    c # ac => gs'.coin_competition[c] = gs.coin_competition[c]
              /\ DOMAIN gs'.coin_competition = DOMAIN gs.coin_competition

C10_UpgradeSuccess == [][C10_UpgradeStep]_vars

\* C10 witness: an upgrade bought while the active coin has competition left
\* and another coin has competition of its own
C10_Witness ==
    /\ ret.op = "buy_upgrade"
    /\ ret.ok
    /\ gs.coin_competition[gs.active_coin] > 0
    /\ \E c \in CoinIds : c # gs.active_coin /\ gs.coin_competition[c] > 0

\* The state a single reconciliation pass makes of save file i
OnePass(i) == recalc_hashrate(FromRecord(SaveFiles[i].data, 0))

\* C11: the reconciliation pass is idempotent: running it a second time on
\* an already reconciled state (as load does after construction) yields the
\* state of the first pass.
C11_ReconcileIdempotent ==
    /\ PostInit(PostInit(gs)) = PostInit(gs)
    /\ (ret.op = "load" /\ SaveFiles[ret.args[1]].kind = "object") =>
          gs = OnePass(ret.args[1])

\* C11 witness: the load of the single-coin save, whose first pass migrated
\* the balance and the price history
C11_Witness ==
    /\ ret.op = "load"
    /\ SaveFiles[ret.args[1]].data = LegacyRecord
    /\ gs.wallets[SHIB] = LegacyRecord.crypto
    /\ gs.price_history_by_coin[SHIB] = LegacyRecord.price_history

\* C12: load never surfaces an error: when savegame.json is missing, is not
\* parsable, or is parsable but malformed (not an object, or holding a value
\* of the wrong shape), load returns a fresh default state instead of
\* raising.
C12_LoadNeverRaises ==
    (ret.op = "load" /\ StartFiles[ret.args[1]].kind # "object") =>
        /\ ret.ok
        /\ gs = NewGameState(0)

\* The record of save file i and the coin its active_coin resolves to
FileData(i) == SaveFiles[i].data

FileCoin(i) ==
    ActiveCoinOrDefault(IF "active_coin" \in DOMAIN FileData(i)
                        THEN FileData(i).active_coin ELSE SHIB)

\* gs has just been loaded from the JSON object of save file ret.args[1]
LoadedObject == ret.op = "load" /\ SaveFiles[ret.args[1]].kind = "object"

\* C13: loading a legacy record that carries the scalar price and difficulty
\* but no per-coin price and difficulty maps migrates the scalars: the
\* active coin's entries of the per-coin price and difficulty maps equal the
\* record's price and difficulty, not the registry base values.
C13_LegacyScalarsMigrated ==
    (/\ LoadedObject
     /\ {"price", "difficulty"} \subseteq DOMAIN FileData(ret.args[1])
     /\ "coin_prices" \notin DOMAIN FileData(ret.args[1])
     /\ "coin_difficulties" \notin DOMAIN FileData(ret.args[1])) =>
        /\ gs.coin_prices[FileCoin(ret.args[1])] = FileData(ret.args[1]).price
        /\ gs.coin_difficulties[FileCoin(ret.args[1])] =
              FileData(ret.args[1]).difficulty

\* The recorded wallet of a coin in save file i, 0.0 when it has none
FileWallet(i, c) ==
    IF "wallets" \in DOMAIN FileData(i) /\ c \in DOMAIN FileData(i).wallets
    THEN FileData(i).wallets[c] ELSE 0

\* The legacy single-coin balance of save file i, 0.0 when it has none
FileCrypto(i) ==
    IF "crypto" \in DOMAIN FileData(i) THEN FileData(i).crypto ELSE 0

\* C14: loading a record whose legacy balance is c > 0 and whose active coin
\* has no wallet entry, or an entry of 0, gives the active coin the wallet c;
\* when the active coin's entry is non-zero the legacy balance is ignored;
\* every other coin's wallet keeps its recorded value, 0 when absent.
C14_LegacyBalanceMigrated ==
    LoadedObject =>
        LET i == ret.args[1]
            ac == FileCoin(i)
        IN  /\ gs.active_coin = ac
            /\ gs.wallets[ac] =
                  IF FileCrypto(i) > 0 /\ FileWallet(i, ac) = 0
                  THEN FileCrypto(i) ELSE FileWallet(i, ac)
            /\ \A c \in DOMAIN gs.wallets :
                  c # ac => gs.wallets[c] = FileWallet(i, c)

\* C14 witness: a legacy balance moved into the active coin's wallet next to
\* a recorded wallet of another coin
C14_Witness ==
    /\ LoadedObject
    /\ FileCrypto(ret.args[1]) > 0
    /\ FileWallet(ret.args[1], gs.active_coin) = 0
    /\ gs.wallets[gs.active_coin] = FileCrypto(ret.args[1])
    /\ \E c \in CoinIds : c # gs.active_coin /\ gs.wallets[c] > 0

\* A record whose legacy balance differs from its active coin's non-zero
\* wallet has been loaded, and the wallet is the recorded one
C14_IgnoredCase ==
    /\ LoadedObject
    /\ FileCrypto(ret.args[1]) > 0
    /\ FileWallet(ret.args[1], gs.active_coin) # 0
    /\ FileWallet(ret.args[1], gs.active_coin) # FileCrypto(ret.args[1])
    /\ gs.wallets[gs.active_coin] = FileWallet(ret.args[1], gs.active_coin)

\* The recorded history bucket of a coin in save file i, empty when it has
\* none, and the recorded flat history
FileBucket(i, c) ==
    IF /\ "price_history_by_coin" \in DOMAIN FileData(i)
       /\ c \in DOMAIN FileData(i).price_history_by_coin
    THEN FileData(i).price_history_by_coin[c] ELSE <<>>

FileFlat(i) ==
    IF "price_history" \in DOMAIN FileData(i)
    THEN FileData(i).price_history ELSE <<>>

\* C15: on load the flat price history is copied into the active coin's
\* bucket only when that bucket is empty; a non-empty active bucket is left
\* as recorded, and no other coin's bucket is modified.
C15_FlatHistoryMigrated ==
    LoadedObject =>
        LET i == ret.args[1]
            ac == FileCoin(i)
        IN  /\ gs.price_history_by_coin[ac] =
                  IF FileBucket(i, ac) = <<>> THEN FileFlat(i)
                  ELSE FileBucket(i, ac)
            /\ \A c \in DOMAIN gs.price_history_by_coin :
                  c # ac => gs.price_history_by_coin[c] = FileBucket(i, c)

\* C15 witness: the flat history copied into the empty bucket of the active
\* coin next to a recorded bucket of another coin
C15_Witness ==
    /\ LoadedObject
    /\ FileBucket(ret.args[1], gs.active_coin) = <<>>
    /\ FileFlat(ret.args[1]) # <<>>
    /\ gs.price_history_by_coin[gs.active_coin] = FileFlat(ret.args[1])
    /\ \E c \in CoinIds :
          c # gs.active_coin /\ gs.price_history_by_coin[c] # <<>>

\* A record whose flat history differs from its active coin's non-empty
\* bucket has been loaded, and the bucket is the recorded one
C15_KeptCase ==
    /\ LoadedObject
    /\ FileFlat(ret.args[1]) # <<>>
    /\ FileBucket(ret.args[1], gs.active_coin) # <<>>
    /\ FileBucket(ret.args[1], gs.active_coin) # FileFlat(ret.args[1])
    /\ gs.price_history_by_coin[gs.active_coin] =
          FileBucket(ret.args[1], gs.active_coin)

\* C16: after reset(), from any reachable state, the state equals a freshly
\* constructed default state in every field except the timestamps and
\* money: money is the reset grant 10000, the active coin is SHIB, owned
\* hardware is empty, the cached hashrate and all counters are 0, the log
\* and every history bucket are empty, every wallet is 0, every coin's price,
\* difficulty, network target and competition is its registry default, and
\* multiplier and reject rate are 1.0 and 0.02.
C16_ResetStep ==
    ret'.op = "reset" =>
        /\ gs' = [NewGameState(clock) EXCEPT
                     !.money = RESET_MONEY * 100,
                     !.started_at = gs'.started_at,
                     !.last_mine_ts = gs'.last_mine_ts]
        /\ \A c \in DOMAIN gs'.wallets : gs'.wallets[c] = 0
        /\ \A c \in DOMAIN gs'.price_history_by_coin :
              gs'.price_history_by_coin[c] = <<>>

C16_ResetRestoresDefaults == [][C16_ResetStep]_vars

\* Any two consecutive samples of every bucket are at least
\* PRICE_HISTORY_SAMPLE_SEC seconds apart
SamplesSpaced(g) ==
    \A c \in DOMAIN g.price_history_by_coin :
        \A i \in 1..(Len(g.price_history_by_coin[c]) - 1) :
            g.price_history_by_coin[c][i + 1][1] - g.price_history_by_coin[c][i][1]
                >= PRICE_HISTORY_SAMPLE_SEC * 100

\* C17: a tick appends a sample <<now, price>> to the active coin's bucket
\* only if the bucket is empty or at least 60 seconds have passed since its
\* last sample, and otherwise leaves the bucket as it was, however often
\* ticks are called; so in every bucket any two consecutive samples are at
\* least 60 seconds apart.
C17_SampleStep ==
    /\ SamplesSpaced(gs')
    /\ ret'.op = "mining_tick" =>
          LET ac == gs.active_coin
              hist == gs.price_history_by_coin[ac]
              after == gs'.price_history_by_coin[ac]
              due == \/ hist = <<>>
                     \/ clock - hist[Len(hist)][1] >= PRICE_HISTORY_SAMPLE_SEC * 100
          IN  /\ gs'.active_coin = ac
              /\ due => /\ after # <<>>
                        /\ after[Len(after)] = <<clock, gs'.price>>
                        /\ Len(hist) < PRICE_HISTORY_MAX_POINTS =>
                              after = Append(hist, <<clock, gs'.price>>)
              /\ ~due => after = hist
              /\ \A c \in DOMAIN gs.price_history_by_coin :
                    c # ac => gs'.price_history_by_coin[c] =
                                  gs.price_history_by_coin[c]

C17_OneSamplePerWindow == [][C17_SampleStep]_vars

\* C17 witness: a tick, 60 seconds, and a tick that appended the second
\* sample of the bucket
C17_Witness ==
    /\ ret.op = "mining_tick"
    /\ Len(gs.price_history_by_coin[gs.active_coin]) = 2
    /\ gs.price_history_by_coin[gs.active_coin][2][1] = clock

\* A tick less than 60 seconds after the last sample has left the bucket
C17_RefusedCase ==
    /\ ret.op = "mining_tick"
    /\ Len(gs.price_history_by_coin[gs.active_coin]) = 1
    /\ gs.price_history_by_coin[gs.active_coin][1][1] < clock

\* C18: after any sequence of ticks and coin switches every price-history
\* bucket holds at most 720 samples, and a sample appended to a full bucket
\* evicts the oldest one: the bucket is then the 720 most recent samples in
\* their original order.
C18_BucketStep ==
    /\ \A c \in DOMAIN gs'.price_history_by_coin :
          Len(gs'.price_history_by_coin[c]) <= PRICE_HISTORY_MAX_POINTS
    /\ ret'.op = "mining_tick" =>
          LET hist == gs.price_history_by_coin[gs.active_coin]
              after == gs'.price_history_by_coin[gs.active_coin]
          IN  (/\ Len(hist) = PRICE_HISTORY_MAX_POINTS
               /\ clock - hist[Len(hist)][1] >= PRICE_HISTORY_SAMPLE_SEC * 100) =>
                  after = SubSeq(hist, 2, PRICE_HISTORY_MAX_POINTS)
                              \o << <<clock, gs'.price>> >>

C18_FilledCase ==
    /\ ret.op = "mining_tick"
    /\ gs.active_coin = DOGE
    /\ Len(gs.price_history_by_coin[DOGE]) = PRICE_HISTORY_MAX_POINTS
    /\ gs.price_history_by_coin[DOGE][1] =
          LongRunRecord.price_history_by_coin[DOGE][1]

\* C19: after any sequence of operations the log holds at most 400 lines
\* and is exactly the most recent emitted lines in emission order, the
\* oldest evicted first; get_terminal_logs(limit) returns the last
\* min(limit, length) of them, most recent last, and nothing for limit <= 0.
C19_LogStep ==
    (ret'.op # "load" \/ ret'.ok) =>
        LET logs == gs.terminal_logs
            after == gs'.terminal_logs
            n == Len(after)
        IN  /\ n <= TERMINAL_LOG_MAX
            /\ \/ after = logs
               \/ ret'.op = "reset" /\ after = <<>>
               \/ /\ n > 0
                  /\ after = (IF Len(logs) = TERMINAL_LOG_MAX
                              THEN SubSeq(logs, 2, Len(logs)) ELSE logs)
                             \o <<after[n]>>
            /\ \A limit \in LogLimits :
                  get_terminal_logs(gs', limit) =
                      IF limit <= 0 THEN <<>>
                      ELSE IF limit >= n THEN after
                      ELSE SubSeq(after, n - limit + 1, n)

C19_LogBounded == [][C19_LogStep]_vars

\* C20: every record produced by save has its buffers truncated to their
\* maximum sizes: at most 400 log lines and at most 720 samples in the flat
\* history and in each per-coin bucket, for every state save can be called
\* on, a state just loaded from a record with oversized buffers included.
C20_SavedBuffersTruncated ==
    (ret.op # "load" \/ ret.ok) =>
        /\ Len(save(gs).terminal_logs) <= TERMINAL_LOG_MAX
        /\ Len(save(gs).price_history) <= PRICE_HISTORY_MAX_POINTS
        /\ \A c \in DOMAIN save(gs).price_history_by_coin :
              Len(save(gs).price_history_by_coin[c]) <= PRICE_HISTORY_MAX_POINTS

\* The competition growth of one market update of coin c at difficulty d:
\* difficulty * 0.001 * network_target / TARGET_BLOCK_TIME (state.py:246)
GrowthAmount(c, d) ==
    MulDiv(d, COINS[c].network_target \div TARGET_BLOCK_TIME, 1000 * 1000)

\* C21: every tick, with or without rigs and whether the share is accepted
\* or rejected, runs mine, then the market update, then the history
\* recording.  The reward is credited to the wallet, the price then drifts
\* from its value before the tick and the competition grows, if it does, by
\* the amount computed from the difficulty that mine left; a sample that the
\* tick appends carries the time of the tick and the drifted price, which is
\* the active coin's per-coin price at the end of the tick.
C21_TickStep ==
    ret'.op = "mining_tick" =>
        LET ac == gs.active_coin
            before == Get(gs.price_history_by_coin, ac, <<>>)
            after == gs'.price_history_by_coin[ac]
        IN  /\ gs'.active_coin = ac
            /\ ret'.value > 0 =>
                  gs'.wallets[ac] = FAdd(Get(gs.wallets, ac, 0), ret'.value)
            /\ \E u \in DriftDraws :
                  gs'.price = PyMax(PriceFloor, gs.price + MulDiv(gs.price, u, 10000))
            /\ gs'.coin_prices[ac] = gs'.price
            /\ gs'.coin_competition[ac] \in
                  {gs.coin_competition[ac],
                   gs.coin_competition[ac] + GrowthAmount(ac, gs'.difficulty)}
            /\ after # before =>
                  after[Len(after)] = <<clock, gs'.coin_prices[ac]>>

C21_TickOrder == [][C21_TickStep]_vars

\* C21 witness: a tick paid a reward, the competition grew from the new
\* difficulty and the sample of the tick carries a drifted price
C21_Witness ==
    /\ ret.op = "mining_tick"
    /\ ret.value > 0
    /\ gs.coin_competition[gs.active_coin] = GrowthAmount(gs.active_coin, gs.difficulty)
    /\ gs.difficulty # COINS[gs.active_coin].base_difficulty
    /\ LET hist == gs.price_history_by_coin[gs.active_coin]
       IN  /\ Len(hist) = 1
           /\ hist[1] = <<clock, gs.price>>
           /\ gs.price # COINS[gs.active_coin].base_price

\* C21, the ticks that pay nothing: a tick without rigs and a tick with a
\* rejected share have drifted the price and sampled it
C21_IdleCase ==
    /\ ret.op = "mining_tick"
    /\ gs.hash_rate_cache = 0
    /\ gs.price_history_by_coin[gs.active_coin] = << <<clock, gs.price>> >>
    /\ gs.price # COINS[gs.active_coin].base_price

C21_RejectedCase ==
    /\ ret.op = "mining_tick"
    /\ gs.shares_rejected = 1
    /\ gs.price_history_by_coin[gs.active_coin] = << <<clock, gs.price>> >>
    /\ gs.price # COINS[gs.active_coin].base_price

\* C22: a tick whose mine step is not an accepted share (no rig is owned, or
\* the share is rejected) returns reward 0 and leaves every wallet, the
\* active coin's difficulty, blocks_found and shares_accepted unchanged.
C22_NoPayStep ==
    (/\ ret'.op = "mining_tick"
     /\ \/ SumHashrate(gs.miners_owned, 1) <= 0
        \/ gs'.shares_rejected # gs.shares_rejected) =>
        /\ ret'.value = 0
        /\ gs'.wallets = gs.wallets
        /\ gs'.crypto = gs.crypto
        /\ gs'.coin_difficulties = gs.coin_difficulties
        /\ gs'.difficulty = gs.difficulty
        /\ gs'.blocks_found = gs.blocks_found
        /\ gs'.shares_accepted = gs.shares_accepted

C22_UnacceptedPaysNothing == [][C22_NoPayStep]_vars

\* C22 witness: a share was rejected while rigs run and the wallet holds coins
C22_Witness ==
    /\ ret.op = "mining_tick"
    /\ ret.value = 0
    /\ gs.hash_rate_cache > 0
    /\ FGt(gs.wallets[gs.active_coin], 0)
    /\ gs.terminal_logs # <<>>
    /\ gs.terminal_logs[Len(gs.terminal_logs)].kind = "rejected"

\* C22, the tick without rigs: it logged "no active miners" and paid nothing
C22_IdleCase ==
    /\ ret.op = "mining_tick"
    /\ ret.value = 0
    /\ gs.hash_rate_cache = 0
    /\ FGt(gs.wallets[gs.active_coin], 0)
    /\ gs.terminal_logs # <<>>
    /\ gs.terminal_logs[Len(gs.terminal_logs)].kind = "no active miners"

\* C23: a tick with total hashrate > 0 increments exactly one of
\* shares_accepted and shares_rejected, by exactly 1; a tick with total
\* hashrate 0 increments neither; reset sets both to 0 and no other
\* operation writes them.  Hence between resets their sum is the number of
\* ticks executed with positive hashrate.
C23_ShareStep ==
    LET acc == gs'.shares_accepted - gs.shares_accepted
        rej == gs'.shares_rejected - gs.shares_rejected
        hashrate == SumHashrate(gs.miners_owned, 1)
    IN  /\ (ret'.op = "mining_tick" /\ hashrate > 0) =>
               \/ acc = 1 /\ rej = 0
               \/ acc = 0 /\ rej = 1
        /\ (ret'.op = "mining_tick" /\ hashrate <= 0) => (acc = 0 /\ rej = 0)
        /\ ret'.op = "reset" =>
               (gs'.shares_accepted = 0 /\ gs'.shares_rejected = 0)
        /\ ret'.op \notin {"mining_tick", "reset"} => (acc = 0 /\ rej = 0)

C23_ShareAccounting == [][C23_ShareStep]_vars

\* C23 witness: two ticks with rigs running counted one accepted and one
\* rejected share
C23_Witness ==
    /\ ret.op = "mining_tick"
    /\ gs.hash_rate_cache > 0
    /\ gs.shares_accepted = 1
    /\ gs.shares_rejected = 1

\* C23, the tick without rigs: no share is counted
C23_IdleCase ==
    /\ ret.op = "mining_tick"
    /\ gs.hash_rate_cache = 0
    /\ gs.last_mine_ts > gs.started_at
    /\ gs.shares_accepted + gs.shares_rejected = 0

\* C24: on an accepted share with positive hashrate the reward is strictly
\* positive and the active coin's wallet becomes its balance plus the reward
\* the tick returns (float addition), and the tick has a twin that makes the
\* same draws except for the opposite outcome of the block-found draw: the
\* twin returns the same reward and ends in the same state except for
\* blocks_found.
C24_CreditStep ==
    (/\ ret'.op = "mining_tick"
     /\ SumHashrate(gs.miners_owned, 1) > 0
     /\ gs'.shares_accepted = gs.shares_accepted + 1) =>
        LET ac == gs.active_coin
        IN  /\ ret'.value > 0
            /\ gs'.wallets[ac] = FAdd(Get(gs.wallets, ac, 0), ret'.value)
            /\ gs'.crypto = gs'.wallets[ac]
            /\ \E jitter \in JitterDraws, u \in DriftDraws :
                  /\ gs'.price = PyMax(PriceFloor, gs.price + MulDiv(gs.price, u, 10000))
                  /\ gs'.difficulty =
                        MulDiv(gs.coin_network_targets[ac] \div TARGET_BLOCK_TIME
                                   + MulDiv(SumHashrate(gs.miners_owned, 1),
                                            10000 + jitter, 10000)
                                   + gs.coin_competition[ac],
                               1000,
                               PyMax(1, gs.coin_network_targets[ac]
                                            \div TARGET_BLOCK_TIME))
                  /\ LET twin ==
                             mining_tick(gs, clock, 0, jitter, 999999,
                                 IF gs'.blocks_found = gs.blocks_found
                                 THEN 0 ELSE 999999,
                                 IF gs'.terminal_logs = gs.terminal_logs
                                 THEN 999999 ELSE 0,
                                 u,
                                 IF gs'.coin_competition = gs.coin_competition
                                 THEN 999999 ELSE 0)
                     IN  /\ twin[1].blocks_found # gs'.blocks_found
                         /\ twin[2] = ret'.value
                         /\ [twin[1] EXCEPT !.blocks_found = gs'.blocks_found] = gs'

C24_RewardIndependentOfBlockFound == [][C24_CreditStep]_vars

\* C24 witness: an accepted share was paid and a block was found in the
\* same tick
C24_Witness ==
    /\ ret.op = "mining_tick"
    /\ ret.value > 0
    /\ gs.shares_accepted = 1
    /\ gs.blocks_found = 1
    /\ gs.wallets[gs.active_coin] = ret.value

\* C24, the other outcome of the draw: the same payment without a block
C24_NoBlockCase ==
    /\ ret.op = "mining_tick"
    /\ ret.value > 0
    /\ gs.shares_accepted = 1
    /\ gs.blocks_found = 0
    /\ gs.wallets[gs.active_coin] = ret.value

\* C24 on a wallet that sell_crypto(NaN) has turned into NaN: the balance
\* plus the reward is NaN again
C24_NaNWalletCase ==
    /\ ret.op = "mining_tick"
    /\ ret.value > 0
    /\ IsNaN(gs.wallets[gs.active_coin])

\* The largest reward of the tiers of coin c
MaxTierReward(c) ==
    LET tiers == COINS[c].reward_tiers
    IN  CHOOSE r \in {tiers[i][2] : i \in 1..Len(tiers)} :
            \A i \in 1..Len(tiers) : tiers[i][2] <= r

\* The reward of an accepted share of state g for an elapsed time dt (0.01 s)
\* and a hashrate jitter (1e-4)
RewardFor(g, jitter, dt) ==
    calculate_reward(g,
        PyMax(0, MulDiv(SumHashrate(g.miners_owned, 1), 10000 + jitter, 10000)),
        dt, 0)[2]

\* The gap between two ticks, brought into [0.05 s, 5 s]
ClampedGap(gap) == IF gap < 5 THEN 5 ELSE IF gap > 500 THEN 500 ELSE gap

\* C25: whatever the real gap since the previous tick (zero, negative, or
\* arbitrarily long), the reward of an accepted tick is the reward for an
\* elapsed time within [0.05, 5.0] seconds: it is the reward for the gap
\* clamped to that interval, it is at most the reward of a 5-second tick, and
\* it is at most 0.1 * 5.0 * block_find_multiplier * the largest tier reward
\* of the coin.
C25_DtStep ==
    (/\ ret'.op = "mining_tick"
     /\ SumHashrate(gs.miners_owned, 1) > 0
     /\ gs'.shares_accepted = gs.shares_accepted + 1) =>
        /\ ret'.value <=
              10 * 500 * gs.block_find_multiplier * MaxTierReward(gs.active_coin)
        /\ \E jitter \in JitterDraws :
              /\ ret'.value = RewardFor(gs, jitter, ClampedGap(clock - gs.last_mine_ts))
              /\ ret'.value <= RewardFor(gs, jitter, 500)
              /\ ret'.value >= RewardFor(gs, jitter, 5)

C25_ElapsedTimeClamped == [][C25_DtStep]_vars

\* C25 witness: the first tick of a fresh game, a minute after its start,
\* paid the reward of a 5-second tick
C25_Witness ==
    /\ ret.op = "mining_tick"
    /\ ret.value > 0
    /\ gs.shares_accepted + gs.shares_rejected = 1
    /\ gs.last_mine_ts - gs.started_at >= 6000
    /\ \E jitter \in JitterDraws :
          ret.value =
              RewardFor([gs EXCEPT !.coin_competition = [c \in DOMAIN @ |-> 0]],
                        jitter, 500)

\* C25, the clock set back: the tick paid the reward of a 0.05-second tick
C25_BackwardsCase ==
    /\ ret.op = "mining_tick"
    /\ ret.value > 0
    /\ gs.shares_accepted + gs.shares_rejected = 1
    /\ gs.last_mine_ts < gs.started_at
    /\ \E jitter \in JitterDraws :
          ret.value =
              RewardFor([gs EXCEPT !.coin_competition = [c \in DOMAIN @ |-> 0]],
                        jitter, 5)

\* The tiers of coin c, in list order, whose ceiling is >= difficulty d
TiersAtOrAbove(c, d) ==
    {i \in 1..Len(COINS[c].reward_tiers) : FLe(d, COINS[c].reward_tiers[i][1])}

\* C26: for every registered coin and every difficulty, reward_for_coin
\* returns the reward of the first tier in list order whose ceiling is >= the
\* difficulty, and the last tier's reward when no ceiling is >= the
\* difficulty; hence for each coin the reward never increases as the
\* difficulty increases.
C26_FirstTierWins ==
    ret.op = "reward_for_coin" =>
        LET c == normalize_coin(ret.args[1])
            d == ret.args[2]
            tiers == COINS[c].reward_tiers
            fit == TiersAtOrAbove(c, d)
        IN  /\ fit # {} =>
                  ret.value = tiers[CHOOSE i \in fit : \A j \in fit : i <= j][2]
            /\ fit = {} => ret.value = tiers[Len(tiers)][2]
            /\ \A d2 \in DifficultyInputs :
                  FLe(d, d2) => reward_for_coin(c, d2) <= ret.value

\* C26 witness: a difficulty equal to the ceiling of DOGE's second tier, with
\* the coin written in lower case, pays the second tier's reward
C26_Witness ==
    /\ ret.op = "reward_for_coin"
    /\ ret.args = << <<"d", "o", "g", "e">>, COINS[DOGE].reward_tiers[2][1] >>
    /\ ret.value = COINS[DOGE].reward_tiers[2][2]

\* C26, no ceiling >= difficulty: the last tier's reward
C26_AboveAllCase ==
    /\ ret.op = "reward_for_coin"
    /\ TiersAtOrAbove(normalize_coin(ret.args[1]), ret.args[2]) = {}
    /\ ret.args[2] = PosInf
    /\ ret.value = COINS[XMR].reward_tiers[4][2]

\* The place, in list order, of the tier of coin c that pays at difficulty d
TierUsed(c, d) ==
    IF TiersAtOrAbove(c, d) = {} THEN Len(COINS[c].reward_tiers)
    ELSE CHOOSE i \in TiersAtOrAbove(c, d) : \A j \in TiersAtOrAbove(c, d) : i <= j

\* C27: on an accepted share the active coin's difficulty is set to
\* (base + player hashrate + competition) / max(1, base) with
\* base = network target / 10 >= 1000 and player hashrate > 0, which is
\* strictly greater than 1.0; the reward paid is the expected blocks times
\* the reward of the tier for that difficulty, and that tier's ceiling is
\* above 1.0.
C27_DifficultyStep ==
    (/\ ret'.op = "mining_tick"
     /\ SumHashrate(gs.miners_owned, 1) > 0
     /\ gs'.shares_accepted = gs.shares_accepted + 1) =>
        LET ac == gs.active_coin
            base == gs.coin_network_targets[ac] \div TARGET_BLOCK_TIME
            competition == gs.coin_competition[ac]
            tier == COINS[ac].reward_tiers[TierUsed(ac, gs'.difficulty)]
        IN  /\ base >= 1000
            /\ gs'.difficulty > 1000
            /\ gs'.coin_difficulties[ac] = gs'.difficulty
            /\ tier[1] > 1000
            /\ \E jitter \in JitterDraws :
                  LET hashrate ==
                          MulDiv(SumHashrate(gs.miners_owned, 1), 10000 + jitter, 10000)
                      total == base + hashrate + competition
                  IN  /\ hashrate > 0
                      /\ total > PyMax(1, base)
                      /\ gs'.difficulty = MulDiv(total, 1000, PyMax(1, base))
                      /\ ret'.value =
                            MulDiv(hashrate,
                                   ClampedGap(clock - gs.last_mine_ts)
                                       * gs.block_find_multiplier
                                       * (100 \div TARGET_BLOCK_TIME),
                                   PyMax(1, total)) * tier[2]

C27_PaidAboveDifficultyOne == [][C27_DifficultyStep]_vars

\* C27 witness: SHIB was paid at a difficulty between 1.0 and 1.25, the
\* ceiling of its second tier, after the network target was raised
C27_Witness ==
    /\ ret.op = "mining_tick"
    /\ ret.value > 0
    /\ gs.active_coin = SHIB
    /\ gs.coin_network_targets[SHIB] > COINS[SHIB].network_target
    /\ gs.coin_difficulties[SHIB] > 1000
    /\ gs.coin_difficulties[SHIB] <= COINS[SHIB].reward_tiers[2][1]

\* The per-coin maps a and b agree on every coin other than ac
SameForOthers(a, b, ac) ==
    \A c \in (DOMAIN a \cup DOMAIN b) \ {ac} :
        c \in DOMAIN a /\ c \in DOMAIN b /\ a[c] = b[c]

\* C28: a tick affects only the active coin: the wallet balance, price,
\* difficulty, network target, competition level and history bucket of every
\* other coin are unchanged by the tick, and so are money and the
\* owned-hardware counts.
C28_FrameStep ==
    ret'.op = "mining_tick" =>
        LET ac == gs.active_coin
        IN  /\ SameForOthers(gs.wallets, gs'.wallets, ac)
            /\ SameForOthers(gs.coin_prices, gs'.coin_prices, ac)
            /\ SameForOthers(gs.coin_difficulties, gs'.coin_difficulties, ac)
            /\ SameForOthers(gs.coin_network_targets, gs'.coin_network_targets, ac)
            /\ SameForOthers(gs.coin_competition, gs'.coin_competition, ac)
            /\ SameForOthers(gs.price_history_by_coin, gs'.price_history_by_coin, ac)
            /\ gs'.money = gs.money
            /\ gs'.miners_owned = gs.miners_owned

C28_TickTouchesActiveCoinOnly == [][C28_FrameStep]_vars

\* C28 witness: a tick on DOGE was paid, raised DOGE's competition and
\* sampled DOGE's price while SHIB holds a balance, a competition level and
\* a recorded sample
C28_Witness ==
    /\ ret.op = "mining_tick"
    /\ ret.value > 0
    /\ gs.active_coin = DOGE
    /\ gs.coin_competition[DOGE] > FullRecord.coin_competition[DOGE]
    /\ Len(gs.price_history_by_coin[DOGE]) = 2
    /\ gs.wallets[SHIB] = FullRecord.wallets[SHIB]
    /\ gs.coin_competition[SHIB] = FullRecord.coin_competition[SHIB]
    /\ gs.price_history_by_coin[SHIB] = FullRecord.price_history_by_coin[SHIB]

\* The single-coin view fields equal the active coin's per-coin values
C29_Mirrors ==
    /\ gs.crypto = gs.wallets[gs.active_coin]
    /\ gs.price = gs.coin_prices[gs.active_coin]
    /\ gs.difficulty = gs.coin_difficulties[gs.active_coin]

\* set_active_coin changes only the active coin, the three view fields and
\* the log, and nothing at all when it refuses the coin
C29_SwitchStep ==
    ret'.op = "set_active_coin" =>
        /\ [gs' EXCEPT !.active_coin = gs.active_coin,
                       !.crypto = gs.crypto,
                       !.price = gs.price,
                       !.difficulty = gs.difficulty,
                       !.terminal_logs = gs.terminal_logs] = gs
        /\ ret'.ok =>
              /\ gs'.active_coin = normalize_coin(ret'.args[1])
              /\ gs'.active_coin \in CoinIds
        /\ ~ret'.ok => gs' = gs

\* C29: after construction, after load and after every public operation
\* (tick, sell, buy, set_active_coin, set_mining_config, reset) the legacy
\* balance, price and difficulty equal the active coin's wallet balance,
\* price and difficulty; set_active_coin changes only the active coin, these
\* mirrors and the log and leaves every per-coin map unchanged.
C29_ViewMirrorsActiveCoin == []C29_Mirrors /\ [][C29_SwitchStep]_vars

\* C29 witness: a switch to BTC of a game loaded from a save with a BTC
\* balance and price shows them in the single-coin view
C29_Witness ==
    /\ ret.op = "set_active_coin"
    /\ ret.ok
    /\ gs.active_coin = BTC
    /\ gs.crypto = PartialRecord.wallets[BTC]
    /\ gs.price = PartialRecord.coin_prices[BTC]
    /\ gs.difficulty = COINS[BTC].base_difficulty
    /\ gs.wallets[XMR] = PartialRecord.crypto

\* The state that load returns for the file that save has written for g
Reloaded(g, now) == load([kind |-> "object", data |-> save(g)], now)

\* The per-coin data of coin c in state g
CoinData(g, c) ==
    [wallet |-> g.wallets[c],
     price |-> g.coin_prices[c],
     difficulty |-> g.coin_difficulties[c],
     network_target |-> g.coin_network_targets[c],
     competition |-> g.coin_competition[c],
     history |-> g.price_history_by_coin[c]]

\* C30: save followed by load is the identity on the per-coin data of any
\* reachable state: for every coin the loaded wallet balance, price,
\* difficulty, network target, competition level and history bucket equal
\* those of the saved state, also right after set_active_coin has switched
\* to a coin whose bucket is empty while the previous coin has samples.
C30_SaveLoadIdentity ==
    \A c \in CoinIds : CoinData(Reloaded(gs, clock), c) = CoinData(gs, c)

\* C30, the states in which the claim does hold: the saved price_history is
\* empty or the active coin's bucket is not
C30_IdentityWhenViewCurrent ==
    (PriceHistory(gs) = <<>> \/ gs.price_history_by_coin[gs.active_coin] # <<>>) =>
        C30_SaveLoadIdentity

\* C30, the state the claim names: the switch to a coin with an empty bucket
\* while price_history still is the previous coin's list of samples
C30_StaleViewCase ==
    /\ ret.op = "set_active_coin"
    /\ ret.ok
    /\ gs.price_history_by_coin[gs.active_coin] = <<>>
    /\ PriceHistory(gs) # <<>>
    /\ Reloaded(gs, clock).price_history_by_coin[gs.active_coin] = PriceHistory(gs)

====
